---- MODULE Spec2Model ----
(***************************************************************************)
(* Process builder and ELF loader of the kernel (src/Group_14/src/process.c)*)
(* over the frame allocator, the refcount layer, the paging engine and the  *)
(* memory descriptor.  process.c is translated from its source; the layers  *)
(* it calls (frame.c, paging.c, mm.c) are not among the sources and are     *)
(* written from sections 3 and 4 of the specification.                      *)
(*                                                                          *)
(* The address space is scaled: a page has PAGE_SIZE bytes, a page table    *)
(* PAGES_PER_TABLE entries and a directory TABLES_PER_DIR entries, so that  *)
(* an address is a number below ADDR_SPACE.  The order of the regions (user *)
(* space, kernel image, kernel stacks, temporary slot, recursive entry) is  *)
(* the one of the source.                                                   *)
(***************************************************************************)
EXTENDS Integers, Sequences, FiniteSets, TLC

\* ------------------------------------------------------------------ bounds
NFrames == 18
MaxPid == 5

\* --------------------------------------------------------- layout (scaled)
PAGE_SIZE == 16
PAGES_PER_TABLE == 4
TABLES_PER_DIR == 8
PT_SPAN == PAGES_PER_TABLE * PAGE_SIZE
ADDR_SPACE == TABLES_PER_DIR * PT_SPAN
UINTPTR_MAX == ADDR_SPACE - 1
KERNEL_VIRT_BASE == 3 * PT_SPAN
KERNEL_STACK_VIRT_START == 4 * PT_SPAN
RECURSIVE_PDE_INDEX == TABLES_PER_DIR - 1
PAGING_TEMP_VADDR == (RECURSIVE_PDE_INDEX * PT_SPAN) - PAGE_SIZE
PROCESS_KSTACK_SIZE == 2 * PAGE_SIZE
KERNEL_STACK_VIRT_END == KERNEL_STACK_VIRT_START + 3 * PROCESS_KSTACK_SIZE
USER_STACK_TOP_VIRT_ADDR == KERNEL_VIRT_BASE
USER_STACK_BOTTOM_VIRT == USER_STACK_TOP_VIRT_ADDR - (2 * PAGE_SIZE)
USER_EFLAGS_DEFAULT == 514
GDT_USER_CODE_SELECTOR == 24
GDT_USER_DATA_SELECTOR == 32

PDE_INDEX(addr) == (addr \div PT_SPAN) % TABLES_PER_DIR
PTE_INDEX(addr) == (addr \div PAGE_SIZE) % PAGES_PER_TABLE
PAGE_OFFSET(addr) == addr % PAGE_SIZE
KERNEL_PDE_INDEX == PDE_INDEX(KERNEL_VIRT_BASE)
PAGE_ALIGN_DOWN(addr) == addr - (addr % PAGE_SIZE)
PAGE_ALIGN_UP(addr) == (((addr + PAGE_SIZE - 1) % ADDR_SPACE) \div PAGE_SIZE) * PAGE_SIZE
\* A maximum that yields its second argument.
MaxSecond(a, b) == b
MAX(a, b) == IF a > b THEN a ELSE b
MIN(a, b) == IF a < b THEN a ELSE b
U32(x) == x % ADDR_SPACE

\* page flags
PAGE_PRESENT == "P"
PAGE_RW == "RW"
PAGE_USER == "US"
PAGE_NX_BIT == "NX"
PTE_KERNEL_DATA_FLAGS == {PAGE_PRESENT, PAGE_RW, PAGE_NX_BIT}
PTE_USER_DATA_FLAGS == {PAGE_PRESENT, PAGE_RW, PAGE_USER, PAGE_NX_BIT}
PDE_FLAGS_FROM_PTE(pte_flags) == pte_flags \cap {PAGE_PRESENT, PAGE_RW, PAGE_USER}

\* ------------------------------------------------------------------ frames
Frames == 1..NFrames
BootPT == NFrames + 1
TempPT == NFrames + 2
KernelPdFrame == NFrames + 3
KERNEL_PD == 0

NoEntry == [pfn |-> 0, flags |-> {}]
Present(e) == PAGE_PRESENT \in e.flags
EmptyTable == [i \in 0..(PAGES_PER_TABLE - 1) |-> NoEntry]
EmptyDir == [i \in 0..(TABLES_PER_DIR - 1) |-> NoEntry]
STALE == -1
WCONT == -2
StalePage == [i \in 0..(PAGE_SIZE - 1) |-> STALE]

SetMin(s) == CHOOSE x \in s : \A y \in s : x <= y

\* The kernel page directory after boot: the kernel image and heap are
\* mapped, the temporary slot's table exists, the last entry is the
\* recursive one; the kernel-stack region has no page table yet.
BootKernelDir ==
  [i \in 0..(TABLES_PER_DIR - 1) |->
     IF i = KERNEL_PDE_INDEX THEN [pfn |-> BootPT, flags |-> {PAGE_PRESENT, PAGE_RW}]
     ELSE IF i = PDE_INDEX(PAGING_TEMP_VADDR) THEN [pfn |-> TempPT, flags |-> {PAGE_PRESENT, PAGE_RW}]
     ELSE IF i = RECURSIVE_PDE_INDEX THEN [pfn |-> KernelPdFrame, flags |-> {PAGE_PRESENT, PAGE_RW}]
     ELSE NoEntry]

\* The machine state the operations transform:
\*   rc    reference count of each managed frame
\*   free  the frames the buddy allocator owns
\*   kpd   the kernel page directory
\*   pdm   the contents of a frame used as a page directory
\*   ptm   the contents of a frame used as a page table
\*   dm    the bytes of a frame (STALE: left by a previous owner)
\*   temp  the frame mapped at PAGING_TEMP_VADDR, 0 when the slot is free
\*   bad   how many decrements were applied to a frame whose count was 0
\*   ev    the calls of the running operation that the ordering properties
\*         observe, oldest first, each << name, argument >>
BootMachine ==
  [rc |-> [f \in Frames |-> 0],
   free |-> Frames,
   kpd |-> BootKernelDir,
   pdm |-> [f \in Frames |-> EmptyDir],
   ptm |-> [f \in Frames |-> EmptyTable],
   dm |-> [f \in Frames |-> StalePage],
   temp |-> 0,
   bad |-> 0,
   ev |-> << >>]

\* The call is appended to the record of the running operation.
Note(S, name, arg) == [S EXCEPT !.ev = Append(@, << name, arg >>)]

buddy_free_space(S) == Cardinality(S.free) * PAGE_SIZE

\* frame_alloc: a frame of the buddy allocator with count 1, or 0.
frame_alloc(S) ==
  IF S.free = {} THEN [S |-> S, p |-> 0]
  ELSE LET p == SetMin(S.free)
       IN [S |-> [S EXCEPT !.free = @ \ {p}, !.rc[p] = 1], p |-> p]

\* put_frame: decrement; on the transition to 0 the frame returns to the
\* buddy allocator.  Frames outside the managed range are not tracked.
put_frame(S, p) ==
  IF p \notin Frames THEN S
  ELSE IF S.rc[p] <= 0 THEN [S EXCEPT !.rc[p] = @ - 1, !.bad = @ + 1]
  ELSE IF S.rc[p] = 1
       THEN [S EXCEPT !.rc[p] = 0, !.free = @ \cup {p},
                      !.pdm[p] = EmptyDir, !.ptm[p] = EmptyTable, !.dm[p] = StalePage]
       ELSE [S EXCEPT !.rc[p] = @ - 1]

\* ------------------------------------------------------------------ paging
GetDir(S, pd) == IF pd = KERNEL_PD THEN S.kpd ELSE S.pdm[pd]
SetPDE(S, pd, di, e) ==
  IF pd = KERNEL_PD THEN [S EXCEPT !.kpd[di] = e] ELSE [S EXCEPT !.pdm[pd][di] = e]

\* paging_temp_map, paging_temp_unmap: the slot holds frame p, or nothing.
\* The record keeps the frame the slot held when it was acquired.
paging_temp_map(S, p) == [Note(S, "paging_temp_map", S.temp) EXCEPT !.temp = p]
paging_temp_unmap(S) == [Note(S, "paging_temp_unmap", S.temp) EXCEPT !.temp = 0]

\* paging_get_physical_address: [ok, p] of the two-level walk.
paging_get_physical_address(S, pd, v) ==
  LET pde == GetDir(S, pd)[PDE_INDEX(v)]
  IN IF ~Present(pde) \/ pde.pfn \notin Frames THEN [ok |-> FALSE, p |-> 0]
     ELSE LET pte == S.ptm[pde.pfn][PTE_INDEX(v)]
          IN IF Present(pte) THEN [ok |-> TRUE, p |-> pte.pfn] ELSE [ok |-> FALSE, p |-> 0]

\* paging_map_single_4k: [S, res]; res = 0 on success.
paging_map_single_4k(S, pd, v, p, flags) ==
  LET di == PDE_INDEX(v)
      ti == PTE_INDEX(v)
      WritePte(S1, pt) ==
        [S |-> [(IF Present(S1.ptm[pt][ti]) /\ S1.ptm[pt][ti].pfn # p
                 THEN put_frame(S1, S1.ptm[pt][ti].pfn) ELSE S1)
                  EXCEPT !.ptm[pt][ti] = [pfn |-> p, flags |-> flags]],
         res |-> 0]
      WithTable(pde, a) ==
        IF Present(pde) THEN WritePte(S, pde.pfn)
        ELSE IF a.p = 0 THEN [S |-> S, res |-> -1]
        ELSE WritePte(SetPDE(paging_temp_unmap(
                               [paging_temp_map(a.S, a.p) EXCEPT !.ptm[a.p] = EmptyTable]),
                             pd, di,
                             [pfn |-> a.p, flags |-> PDE_FLAGS_FROM_PTE(flags)]),
                      a.p)
  IN IF PAGE_USER \in flags /\ v >= KERNEL_VIRT_BASE THEN [S |-> S, res |-> -3]
     ELSE WithTable(GetDir(S, pd)[di], frame_alloc(S))

\* paging_unmap_range: clears the PTEs of n pages from v and decrements the
\* count of each frame that was mapped; absent entries are skipped.
RECURSIVE paging_unmap_range(_, _, _, _)
paging_unmap_range(S, pd, v, n) ==
  IF n = 0 THEN S
  ELSE
    LET pde == GetDir(S, pd)[PDE_INDEX(v)]
        S1 == IF Present(pde) /\ pde.pfn \in Frames /\ Present(S.ptm[pde.pfn][PTE_INDEX(v)])
              THEN put_frame([S EXCEPT !.ptm[pde.pfn][PTE_INDEX(v)] = NoEntry],
                             S.ptm[pde.pfn][PTE_INDEX(v)].pfn)
              ELSE S
    IN paging_unmap_range(S1, pd, v + PAGE_SIZE, n - 1)

\* The frames a page table maps are put, lowest index first.
RECURSIVE PutTableFrames(_, _, _)
PutTableFrames(S, pt, ti) ==
  IF ti = PAGES_PER_TABLE THEN S
  ELSE PutTableFrames(IF Present(S.ptm[pt][ti]) THEN put_frame(S, S.ptm[pt][ti].pfn) ELSE S,
                      pt, ti + 1)

\* paging_free_user_space: every user page table's frames, then the table.
RECURSIVE paging_free_user_space(_, _, _)
paging_free_user_space(S, pd, di) ==
  IF di = KERNEL_PDE_INDEX THEN S
  ELSE
    LET pde == GetDir(S, pd)[di]
        S1 == IF Present(pde) /\ pde.pfn \in Frames
              THEN SetPDE(put_frame(PutTableFrames(S, pde.pfn, 0), pde.pfn), pd, di, NoEntry)
              ELSE S
    IN paging_free_user_space(S1, pd, di + 1)

\* copy_kernel_pde_entries: the kernel-space entries of the kernel directory.
copy_kernel_pde_entries(S, pd) ==
  [S EXCEPT !.pdm[pd] = [i \in 0..(TABLES_PER_DIR - 1) |->
      IF i >= KERNEL_PDE_INDEX /\ i < RECURSIVE_PDE_INDEX THEN S.kpd[i] ELSE @[i]]]

\* ------------------------------------------------------- memory descriptor
VM_READ == "VM_READ"
VM_WRITE == "VM_WRITE"
VM_EXEC == "VM_EXEC"
VM_USER == "VM_USER"
VM_ANONYMOUS == "VM_ANONYMOUS"
VM_GROWS_DOWN == "VM_GROWS_DOWN"

NoMM == [pgd_phys |-> 0, vmas |-> << >>, start_brk |-> 0, end_brk |-> 0]

\* create_mm: a descriptor bound to the given directory.
create_mm(pd_phys) == [pgd_phys |-> pd_phys, vmas |-> << >>, start_brk |-> 0, end_brk |-> 0]

VmaOverlap(vmas, start, end) ==
  \E i \in 1..Len(vmas) : vmas[i].vm_start < end /\ start < vmas[i].vm_end

\* The position a VMA starting at start takes in the sorted list.
VmaPosition(vmas, start) == Cardinality({i \in 1..Len(vmas) : vmas[i].vm_start < start})

\* An insertion that puts the new VMA at the end of the list.
InsertVmaAtEnd(mm, start, end, flags, prot) ==
  IF start >= end \/ end > KERNEL_VIRT_BASE \/ VmaOverlap(mm.vmas, start, end)
  THEN [ok |-> FALSE, mm |-> mm]
  ELSE [ok |-> TRUE,
        mm |-> [mm EXCEPT !.vmas = Append(@, [vm_start |-> start, vm_end |-> end,
                                              vm_flags |-> flags, page_prot |-> prot])]]

\* insert_vma: inserts in sorted order; fails on an empty span, on overlap
\* and on a span that crosses into kernel space.
insert_vma(mm, start, end, flags, prot) ==
  IF start >= end \/ end > KERNEL_VIRT_BASE \/ VmaOverlap(mm.vmas, start, end)
  THEN [ok |-> FALSE, mm |-> mm]
  ELSE LET k == VmaPosition(mm.vmas, start)
           v == [vm_start |-> start, vm_end |-> end, vm_flags |-> flags, page_prot |-> prot]
       IN [ok |-> TRUE,
           mm |-> [mm EXCEPT !.vmas = SubSeq(@, 1, k) \o << v >> \o SubSeq(@, k + 1, Len(@))]]

\* destroy_mm: the user space of the directory is freed, then the VMA list
\* and the descriptor; the directory frame is left to the PCB.
destroy_mm(S, mm) == paging_free_user_space(S, mm.pgd_phys, 0)

\* --------------------------------------------------------------------- ELF
ELFMAG == << 127, 69, 76, 70 >>
ELFCLASS32 == 1
ELFDATA2LSB == 1
ET_EXEC == 2
EM_386 == 3
EV_CURRENT == 1
PT_LOAD == 1
SIZEOF_EHDR == 52
SIZEOF_PHDR == 32
PF_X == "PF_X"
PF_W == "PF_W"
PF_R == "PF_R"

\* The byte of the file buffer at an offset: every offset has its own
\* non-zero value, so a byte copied from the wrong place is seen.
FileByte(elf, off) == off + 1

\* Whether NX is supported (g_nx_supported) is fixed at boot.
g_nx_supported == TRUE

\* The header validation without the test for a zero entry point.
HeaderInvalidEntryUnchecked(elf) ==
  \/ elf.e_ident_mag # ELFMAG
  \/ elf.ei_class # ELFCLASS32
  \/ elf.ei_data # ELFDATA2LSB
  \/ elf.e_type # ET_EXEC
  \/ elf.e_machine # EM_386
  \/ elf.e_version # EV_CURRENT
  \/ elf.e_phentsize # SIZEOF_PHDR
  \/ elf.e_phoff = 0
  \/ elf.e_phnum = 0
  \/ elf.e_phoff + (elf.e_phnum * elf.e_phentsize) > elf.file_size

HeaderInvalid(elf) ==
  \/ elf.e_ident_mag # ELFMAG
  \/ elf.ei_class # ELFCLASS32
  \/ elf.ei_data # ELFDATA2LSB
  \/ elf.e_type # ET_EXEC
  \/ elf.e_machine # EM_386
  \/ elf.e_version # EV_CURRENT
  \/ elf.e_phentsize # SIZEOF_PHDR
  \/ elf.e_phoff = 0
  \/ elf.e_phnum = 0
  \/ elf.e_phoff + (elf.e_phnum * elf.e_phentsize) > elf.file_size
  \/ elf.e_entry = 0

\* The segment validation without the test for wrap-around.
SegmentInvalidNoWrapTest(elf, ph) ==
  \/ ph.p_vaddr >= KERNEL_VIRT_BASE
  \/ (U32(ph.p_vaddr + ph.p_memsz) > KERNEL_VIRT_BASE /\ ph.p_vaddr < KERNEL_VIRT_BASE)
  \/ ph.p_filesz > ph.p_memsz
  \/ ph.p_offset > elf.file_size
  \/ ph.p_filesz > elf.file_size - ph.p_offset

SegmentInvalid(elf, ph) ==
  \/ ph.p_vaddr >= KERNEL_VIRT_BASE
  \/ (U32(ph.p_vaddr + ph.p_memsz) > KERNEL_VIRT_BASE /\ ph.p_vaddr < KERNEL_VIRT_BASE)
  \/ U32(ph.p_vaddr + ph.p_memsz) < ph.p_vaddr
  \/ ph.p_filesz > ph.p_memsz
  \/ ph.p_offset > elf.file_size
  \/ ph.p_filesz > elf.file_size - ph.p_offset

\* The copy that returns with the frame still in the temporary slot.
CopyElfSegmentDataSlotHeld(S, frame_paddr, elf, file_buffer_offset, size_to_copy, zero_padding, fault) ==
  LET Fill(S1) ==
        [S1 EXCEPT !.dm[S1.temp] = [k \in 0..(PAGE_SIZE - 1) |->
           IF k < size_to_copy THEN FileByte(elf, file_buffer_offset + k)
           ELSE IF k < size_to_copy + zero_padding THEN 0
           ELSE @[k]]]
  IN IF fault = "temp_map_elf" THEN [S |-> S, res |-> -1]
     ELSE [S |-> Fill(paging_temp_map(S, frame_paddr)), res |-> 0]

\* copy_elf_segment_data: through the temporary slot, size_to_copy bytes of
\* the file go to the start of the frame and zero_padding zero bytes follow.
copy_elf_segment_data(S, frame_paddr, elf, file_buffer_offset, size_to_copy, zero_padding, fault) ==
  LET Fill(S1) ==
        [S1 EXCEPT !.dm[S1.temp] = [k \in 0..(PAGE_SIZE - 1) |->
           IF k < size_to_copy THEN FileByte(elf, file_buffer_offset + k)
           ELSE IF k < size_to_copy + zero_padding THEN 0
           ELSE @[k]]]
  IN IF fault = "temp_map_elf" THEN [S |-> S, res |-> -1]
     ELSE [S |-> paging_temp_unmap(Fill(paging_temp_map(S, frame_paddr))), res |-> 0]

\* The sizes the loader computes for the page at page_v of a segment.
PageCopy(ph, page_v) ==
  LET file_copy_start_vaddr == ph.p_vaddr
      file_copy_end_vaddr == U32(ph.p_vaddr + ph.p_filesz)
      page_start_vaddr == page_v
      page_end_vaddr == IF U32(page_v + PAGE_SIZE) <= page_start_vaddr
                        THEN UINTPTR_MAX ELSE U32(page_v + PAGE_SIZE)
      copy_v_start == MAX(page_start_vaddr, file_copy_start_vaddr)
      copy_v_end == MIN(page_end_vaddr, file_copy_end_vaddr)
      mem_end_vaddr == IF U32(ph.p_vaddr + ph.p_memsz) < ph.p_vaddr
                       THEN UINTPTR_MAX ELSE U32(ph.p_vaddr + ph.p_memsz)
      zero_v_end == MIN(page_end_vaddr, mem_end_vaddr)
      Zero(copy_size_this_page, zero_v_start) ==
        [copy |-> copy_size_this_page,
         offset |-> IF copy_size_this_page > 0
                    THEN U32(U32(copy_v_start - ph.p_vaddr) + ph.p_offset) ELSE 0,
         zero |-> IF zero_v_end > zero_v_start THEN zero_v_end - zero_v_start ELSE 0]
      Copy(copy_size_this_page) ==
        Zero(copy_size_this_page, U32(page_start_vaddr + copy_size_this_page))
  IN Copy(IF copy_v_end > copy_v_start THEN copy_v_end - copy_v_start ELSE 0)

\* The page loop of one segment: [S, ok].
RECURSIVE LoadPages(_, _, _, _, _, _, _, _)
LoadPages(S, pgd, elf, ph, page_prot, page_v, vm_end, fault) ==
  IF page_v >= vm_end THEN [S |-> S, ok |-> TRUE]
  ELSE
    LET Mapped(a, m) ==
          IF m.res # 0 THEN [S |-> put_frame(m.S, a.p), ok |-> FALSE]
          ELSE LoadPages(m.S, pgd, elf, ph, page_prot, page_v + PAGE_SIZE, vm_end, fault)
        Copied(a, d) ==
          IF d.res # 0 THEN [S |-> put_frame(d.S, a.p), ok |-> FALSE]
          ELSE Mapped(a, paging_map_single_4k(d.S, pgd, page_v, a.p, page_prot))
        Sized(a, c) ==
          IF c.copy + c.zero > PAGE_SIZE THEN [S |-> put_frame(a.S, a.p), ok |-> FALSE]
          ELSE Copied(a, copy_elf_segment_data(a.S, a.p, elf, c.offset, c.copy, c.zero, fault))
        Allocated(a) ==
          IF a.p = 0 THEN [S |-> S, ok |-> FALSE] ELSE Sized(a, PageCopy(ph, page_v))
    IN Allocated(frame_alloc(S))

SegVmaFlags(ph) ==
  {VM_USER, VM_ANONYMOUS}
    \cup (IF PF_R \in ph.p_flags THEN {VM_READ} ELSE {})
    \cup (IF PF_W \in ph.p_flags THEN {VM_WRITE} ELSE {})
    \cup (IF PF_X \in ph.p_flags THEN {VM_EXEC} ELSE {})

\* The page protection with the NX marker on every segment.
SegPageProtAlwaysNx(ph) ==
  {PAGE_PRESENT, PAGE_USER, PAGE_NX_BIT}
    \cup (IF PF_W \in ph.p_flags THEN {PAGE_RW} ELSE {})

SegPageProt(ph) ==
  {PAGE_PRESENT, PAGE_USER}
    \cup (IF PF_W \in ph.p_flags THEN {PAGE_RW} ELSE {})
    \cup (IF PF_X \notin ph.p_flags /\ g_nx_supported THEN {PAGE_NX_BIT} ELSE {})

\* The program-header loop: [S, mm, ok, highest_addr_loaded].
RECURSIVE LoadSegments(_, _, _, _, _, _)
LoadSegments(S, mm, elf, i, highest_addr_loaded, fault) ==
  IF i > elf.e_phnum THEN [S |-> S, mm |-> mm, ok |-> TRUE, highest |-> highest_addr_loaded]
  ELSE
    LET ph == elf.phdrs[i]
        vm_start == PAGE_ALIGN_DOWN(ph.p_vaddr)
        vm_end == PAGE_ALIGN_UP(U32(ph.p_vaddr + ph.p_memsz))
        current_segment_end == IF U32(ph.p_vaddr + ph.p_memsz) < ph.p_vaddr
                               THEN UINTPTR_MAX ELSE U32(ph.p_vaddr + ph.p_memsz)
        Populated(ins, pg) ==
          IF ~pg.ok
          THEN [S |-> pg.S, mm |-> ins.mm, ok |-> FALSE, highest |-> highest_addr_loaded]
          ELSE LoadSegments(pg.S, ins.mm, elf, i + 1,
                            MAX(highest_addr_loaded, current_segment_end), fault)
        Inserted(ins) ==
          IF ~ins.ok
          THEN [S |-> S, mm |-> mm, ok |-> FALSE, highest |-> highest_addr_loaded]
          ELSE Populated(ins, LoadPages(S, mm.pgd_phys, elf, ph, SegPageProt(ph),
                                        vm_start, vm_end, fault))
    IN IF ph.p_type # PT_LOAD \/ ph.p_memsz = 0
       THEN LoadSegments(S, mm, elf, i + 1, highest_addr_loaded, fault)
       ELSE IF SegmentInvalid(elf, ph)
       THEN [S |-> S, mm |-> mm, ok |-> FALSE, highest |-> highest_addr_loaded]
       ELSE IF vm_end <= vm_start
       THEN LoadSegments(S, mm, elf, i + 1, highest_addr_loaded, fault)
       ELSE Inserted(insert_vma(mm, vm_start, vm_end, SegVmaFlags(ph), SegPageProt(ph)))

\* load_elf_and_init_memory: [S, mm, result, entry_point, initial_brk].
\* entry_point is written as soon as the header is accepted.
load_elf_and_init_memory(S, mm, elf, fault) ==
  IF fault = "read_file" \/ elf.file_size < SIZEOF_EHDR \/ HeaderInvalid(elf)
  THEN [S |-> S, mm |-> mm, result |-> -1, entry_point |-> 0, initial_brk |-> 0]
  ELSE
    LET Brk(highest) ==
          IF PAGE_ALIGN_UP(highest) < highest THEN UINTPTR_MAX ELSE PAGE_ALIGN_UP(highest)
        Loaded(r) ==
          IF r.ok
          THEN [S |-> r.S, mm |-> r.mm, result |-> 0, entry_point |-> elf.e_entry,
                initial_brk |-> Brk(r.highest)]
          ELSE [S |-> r.S, mm |-> r.mm, result |-> -1, entry_point |-> elf.e_entry,
                initial_brk |-> 0]
    IN Loaded(LoadSegments(S, mm, elf, 1, 0, fault))

\* ----------------------------------------------------------------- process
NoProc ==
  [pid |-> 0, page_directory_phys |-> 0, kernel_stack_vaddr_top |-> 0,
   kernel_stack_phys_base |-> 0, mm |-> NoMM, entry_point |-> 0,
   user_stack_top |-> 0, kernel_esp_for_switch |-> 0]

KSTACK_PAGES == PROCESS_KSTACK_SIZE \div PAGE_SIZE

\* The frame-allocation loop of allocate_kernel_stack: [S, frames, ok]; on
\* exhaustion the frames already allocated are put.
RECURSIVE PutFrames(_, _, _)
PutFrames(S, frames, j) ==
  IF j > Len(frames) THEN S ELSE PutFrames(put_frame(S, frames[j]), frames, j + 1)

RECURSIVE AllocStackFrames(_, _, _)
AllocStackFrames(S, frames, num_pages) ==
  IF Len(frames) = num_pages THEN [S |-> S, frames |-> frames, ok |-> TRUE]
  ELSE LET Allocated(a) ==
             IF a.p = 0 THEN [S |-> PutFrames(S, frames, 1), frames |-> frames, ok |-> FALSE]
             ELSE AllocStackFrames(a.S, Append(frames, a.p), num_pages)
       IN Allocated(frame_alloc(S))

\* The mapping loop of allocate_kernel_stack: [S, ok]; when page i fails
\* the pages 0..i-1 are unmapped and every frame is put.
RECURSIVE MapStackPages(_, _, _, _)
MapStackPages(S, frames, kstack_virt_base, i) ==
  IF i = Len(frames) THEN [S |-> S, ok |-> TRUE]
  ELSE
    LET Mapped(m) ==
          IF m.res # 0
          THEN [S |-> PutFrames(IF i > 0
                                THEN paging_unmap_range(m.S, KERNEL_PD, kstack_virt_base, i)
                                ELSE m.S,
                                frames, 1),
                ok |-> FALSE]
          ELSE MapStackPages(Note(m.S, "map_kstack_page", kstack_virt_base + (i * PAGE_SIZE)),
                             frames, kstack_virt_base, i + 1)
    IN Mapped(paging_map_single_4k(S, KERNEL_PD, kstack_virt_base + (i * PAGE_SIZE),
                                   frames[i + 1], PTE_KERNEL_DATA_FLAGS))

\* The kernel-stack allocation without the rollback of the virtual range
\* when a page cannot be mapped.
AllocateKernelStackNoRollback(S, kbase, fault) ==
  IF fault = "kmalloc_kstack"
  THEN [S |-> Note(S, "kstack_error", 1), kbase |-> kbase, ok |-> FALSE,
        phys_base |-> 0, top |-> 0]
  ELSE
    LET kstack_virt_base == kbase
        kstack_virt_end == U32(kstack_virt_base + PROCESS_KSTACK_SIZE)
        Mapped(fr, mp) ==
          IF ~mp.ok
          THEN [S |-> Note(mp.S, "kstack_error", 4), kbase |-> kstack_virt_end, ok |-> FALSE,
                phys_base |-> fr.frames[1], top |-> 0]
          ELSE [S |-> mp.S, kbase |-> kstack_virt_end, ok |-> TRUE,
                phys_base |-> fr.frames[1], top |-> kstack_virt_end]
        Allocated(fr) ==
          IF ~fr.ok
          THEN [S |-> Note(fr.S, "kstack_error", 2), kbase |-> kbase, ok |-> FALSE,
                phys_base |-> 0, top |-> 0]
          ELSE IF kstack_virt_base < KERNEL_STACK_VIRT_START
                  \/ kstack_virt_end > KERNEL_STACK_VIRT_END
                  \/ kstack_virt_end <= kstack_virt_base
          THEN [S |-> Note(PutFrames(fr.S, fr.frames, 1), "kstack_error", 3),
                kbase |-> kbase, ok |-> FALSE,
                phys_base |-> fr.frames[1], top |-> 0]
          ELSE Mapped(fr, MapStackPages(fr.S, fr.frames, kstack_virt_base, 0))
    IN Allocated(AllocStackFrames(S, << >>, KSTACK_PAGES))

\* allocate_kernel_stack: [S, kbase, ok, phys_base, top]; kbase is
\* g_next_kernel_stack_virt_base.  Each failure is recorded with the number
\* of its error message: 1 kmalloc, 2 out of frames, 3 virtual range
\* exhausted, 4 mapping failed.
allocate_kernel_stack(S, kbase, fault) ==
  IF fault = "kmalloc_kstack"
  THEN [S |-> Note(S, "kstack_error", 1), kbase |-> kbase, ok |-> FALSE,
        phys_base |-> 0, top |-> 0]
  ELSE
    LET kstack_virt_base == kbase
        kstack_virt_end == U32(kstack_virt_base + PROCESS_KSTACK_SIZE)
        Mapped(fr, mp) ==
          IF ~mp.ok
          THEN [S |-> Note(mp.S, "kstack_error", 4), kbase |-> kstack_virt_base, ok |-> FALSE,
                phys_base |-> fr.frames[1], top |-> 0]
          ELSE [S |-> mp.S, kbase |-> kstack_virt_end, ok |-> TRUE,
                phys_base |-> fr.frames[1], top |-> kstack_virt_end]
        Allocated(fr) ==
          IF ~fr.ok
          THEN [S |-> Note(fr.S, "kstack_error", 2), kbase |-> kbase, ok |-> FALSE,
                phys_base |-> 0, top |-> 0]
          ELSE IF kstack_virt_base < KERNEL_STACK_VIRT_START
                  \/ kstack_virt_end > KERNEL_STACK_VIRT_END
                  \/ kstack_virt_end <= kstack_virt_base
          THEN [S |-> Note(PutFrames(fr.S, fr.frames, 1), "kstack_error", 3),
                kbase |-> kbase, ok |-> FALSE,
                phys_base |-> fr.frames[1], top |-> 0]
          ELSE Mapped(fr, MapStackPages(fr.S, fr.frames, kstack_virt_base, 0))
    IN Allocated(AllocStackFrames(S, << >>, KSTACK_PAGES))

\* A 32-bit store at a kernel virtual address, through the kernel page
\* directory: the value is kept in the cell of the lowest address and the
\* three cells after it are marked as the rest of the word.
StoreWord(S, v, val) ==
  LET o == PAGE_OFFSET(v)
      Store(t) ==
        IF ~t.ok \/ t.p \notin Frames THEN S
        ELSE [S EXCEPT !.dm[t.p] = [k \in 0..(PAGE_SIZE - 1) |->
                IF k = o THEN val ELSE IF k > o /\ k < o + 4 THEN WCONT ELSE @[k]]]
  IN Store(paging_get_physical_address(S, KERNEL_PD, v))

\* x | 3
OrRpl3(x) == x - (x % 4) + 3

\* The frame builder with the code selector and EFLAGS pushed in the
\* opposite order.
PrepareStackSwapped(S, proc) ==
  LET top == proc.kernel_stack_vaddr_top
  IN [S |-> StoreWord(
              StoreWord(
                StoreWord(
                  StoreWord(
                    StoreWord(S, top - 4, OrRpl3(GDT_USER_DATA_SELECTOR)),
                    top - 8, proc.user_stack_top),
                  top - 12, OrRpl3(GDT_USER_CODE_SELECTOR)),
                top - 16, USER_EFLAGS_DEFAULT),
              top - 20, proc.entry_point),
      esp |-> top - 20]

\* prepare_initial_kernel_stack: [S, esp]; SS, ESP, EFLAGS, CS and EIP are
\* pushed from the top of the kernel stack downward.
prepare_initial_kernel_stack(S, proc) ==
  LET top == proc.kernel_stack_vaddr_top
  IN [S |-> StoreWord(
              StoreWord(
                StoreWord(
                  StoreWord(
                    StoreWord(S, top - 4, OrRpl3(GDT_USER_DATA_SELECTOR)),
                    top - 8, proc.user_stack_top),
                  top - 12, USER_EFLAGS_DEFAULT),
                top - 16, OrRpl3(GDT_USER_CODE_SELECTOR)),
              top - 20, proc.entry_point),
      esp |-> top - 20]

\* The put_frame loop of destroy_process over the pages of the kernel stack.
RECURSIVE PutStackFrames(_, _, _)
PutStackFrames(S, v_addr, stack_top) ==
  IF v_addr >= stack_top THEN S
  ELSE LET Found(t) ==
             PutStackFrames(IF t.ok /\ t.p # 0
                            THEN put_frame(Note(S, "put_frame_kstack", t.p), t.p) ELSE S,
                            v_addr + PAGE_SIZE, stack_top)
       IN Found(paging_get_physical_address(S, KERNEL_PD, v_addr))

\* A teardown that puts the directory frame first.
DestroyDirectoryFirst(S, pcb) ==
  LET stack_top == pcb.kernel_stack_vaddr_top
      stack_base == stack_top - PROCESS_KSTACK_SIZE
      FreePcb(S3) == Note(S3, "kfree_pcb", pcb.pid)
      FreeKernelStack(S2) ==
        FreePcb(IF stack_top # 0
                THEN paging_unmap_range(
                       Note(PutStackFrames(S2, stack_base, stack_top),
                            "paging_unmap_range_kstack", stack_base),
                       KERNEL_PD, stack_base, KSTACK_PAGES)
                ELSE S2)
      FreeMm(S1) ==
        FreeKernelStack(IF pcb.mm # NoMM
                        THEN Note(destroy_mm(Note(S1, "destroy_mm", pcb.pid), pcb.mm),
                                  "destroy_mm_done", pcb.pid)
                        ELSE S1)
  IN FreeMm(IF pcb.page_directory_phys # 0
            THEN put_frame(Note(S, "put_frame_pd", pcb.page_directory_phys),
                           pcb.page_directory_phys)
            ELSE S)

\* destroy_process: the mm, then the kernel stack (put_frame of every page,
\* then the unmapping of the range in the kernel directory), then the
\* directory frame, then the PCB.
destroy_process(S, pcb) ==
  LET stack_top == pcb.kernel_stack_vaddr_top
      stack_base == stack_top - PROCESS_KSTACK_SIZE
      FreePcb(S3) == Note(S3, "kfree_pcb", pcb.pid)
      FreeDirectory(S2) ==
        FreePcb(IF pcb.page_directory_phys # 0
                THEN put_frame(Note(S2, "put_frame_pd", pcb.page_directory_phys),
                               pcb.page_directory_phys)
                ELSE S2)
      FreeKernelStack(S1) ==
        FreeDirectory(IF stack_top # 0
                      THEN paging_unmap_range(
                             Note(PutStackFrames(S1, stack_base, stack_top),
                                  "paging_unmap_range_kstack", stack_base),
                             KERNEL_PD, stack_base, KSTACK_PAGES)
                      ELSE S1)
  IN FreeKernelStack(IF pcb.mm # NoMM
                     THEN Note(destroy_mm(Note(S, "destroy_mm", pcb.pid), pcb.mm),
                               "destroy_mm_done", pcb.pid)
                     ELSE S)

\* ------------------------------------------------------ create_user_process
\* The steps of create_user_process thread a context: the machine S, the
\* globals next_pid, g_next_kernel_stack_virt_base (kbase) and the TSS
\* esp0 (tss), the PCB being built, the locals the cleanup reads, and st:
\* "run" while no step has failed, "fail" after a goto fail_create, "null"
\* when the PCB itself could not be allocated.
NoLoad == [called |-> FALSE, result |-> 0, vmas |-> 0, frames |-> 0]

\* The PCB step with the counter left alone: the pid is read and next_pid
\* keeps its value.
StepPcbCounterKept(S, pid, kbase, tss, fault) ==
  [S |-> S, next_pid |-> pid,
   kbase |-> kbase, tss |-> tss,
   proc |-> IF fault = "kmalloc_pcb" THEN NoProc ELSE [NoProc EXCEPT !.pid = pid],
   st |-> IF fault = "kmalloc_pcb" THEN "null" ELSE "run",
   ret_status |-> -1, initial_stack_phys_frame |-> 0, initial_stack_mapped |-> FALSE,
   load |-> NoLoad]

StepPcb(S, pid, kbase, tss, fault) ==
  [S |-> S, next_pid |-> IF fault = "kmalloc_pcb" THEN pid ELSE pid + 1,
   kbase |-> kbase, tss |-> tss,
   proc |-> IF fault = "kmalloc_pcb" THEN NoProc ELSE [NoProc EXCEPT !.pid = pid],
   st |-> IF fault = "kmalloc_pcb" THEN "null" ELSE "run",
   ret_status |-> -1, initial_stack_phys_frame |-> 0, initial_stack_mapped |-> FALSE,
   load |-> NoLoad]

Fail(c, status) == [c EXCEPT !.st = "fail", !.ret_status = status]

\* A recursive entry with the present and read/write bits only.
RecursiveEntryPlain(pd_phys) ==
  [pfn |-> pd_phys, flags |-> {PAGE_PRESENT, PAGE_RW}]

\* The recursive entry the builder writes into the new directory.
RecursiveEntry(pd_phys) ==
  [pfn |-> pd_phys, flags |-> {PAGE_PRESENT, PAGE_RW, PAGE_NX_BIT}]

StepPageDirectory(c, fault) ==
  IF c.st # "run" THEN c
  ELSE
    LET SetRecursive(S3, pd_phys) ==
          [S3 EXCEPT !.pdm[S3.temp][RECURSIVE_PDE_INDEX] = RecursiveEntry(pd_phys)]
        CopyKernel(S2) == copy_kernel_pde_entries(S2, S2.temp)
        Zero(S1) == [S1 EXCEPT !.pdm[S1.temp] = EmptyDir]
        Allocated(a) ==
          IF a.p = 0 THEN Fail(c, -1)
          ELSE IF fault = "temp_map_pd"
          THEN Fail([c EXCEPT !.S = a.S, !.proc.page_directory_phys = a.p], -2)
          ELSE [c EXCEPT !.proc.page_directory_phys = a.p,
                         !.S = paging_temp_unmap(
                                 SetRecursive(CopyKernel(Zero(paging_temp_map(a.S, a.p))), a.p))]
    IN Allocated(frame_alloc(c.S))

\* The kernel-stack step with the TSS updated before the outcome of the
\* allocation is tested.
StepKernelStackTssFirst(c, fault) ==
  IF c.st # "run" THEN c
  ELSE
    LET Allocated(k) ==
          IF ~k.ok
          THEN Fail([c EXCEPT !.S = Note(k.S, "tss_set_kernel_stack", k.top),
                              !.kbase = k.kbase,
                              !.proc.kernel_stack_phys_base = k.phys_base,
                              !.tss = k.top], -3)
          ELSE [c EXCEPT !.S = Note(k.S, "tss_set_kernel_stack", k.top), !.kbase = k.kbase,
                         !.proc.kernel_stack_phys_base = k.phys_base,
                         !.proc.kernel_stack_vaddr_top = k.top,
                         !.tss = k.top]
    IN Allocated(allocate_kernel_stack(c.S, c.kbase, fault))

StepKernelStack(c, fault) ==
  IF c.st # "run" THEN c
  ELSE
    LET Allocated(k) ==
          IF ~k.ok
          THEN Fail([c EXCEPT !.S = k.S, !.kbase = k.kbase,
                              !.proc.kernel_stack_phys_base = k.phys_base], -3)
          ELSE [c EXCEPT !.S = Note(k.S, "tss_set_kernel_stack", k.top), !.kbase = k.kbase,
                         !.proc.kernel_stack_phys_base = k.phys_base,
                         !.proc.kernel_stack_vaddr_top = k.top,
                         !.tss = k.top]
    IN Allocated(allocate_kernel_stack(c.S, c.kbase, fault))

StepMm(c, fault) ==
  IF c.st # "run" THEN c
  ELSE IF fault = "create_mm" THEN Fail(c, -4)
  ELSE [c EXCEPT !.proc.mm = create_mm(c.proc.page_directory_phys)]

StepLoadElf(c, elf, fault) ==
  IF c.st # "run" THEN c
  ELSE
    LET Log(l) == [called |-> TRUE, result |-> l.result, vmas |-> Len(l.mm.vmas),
                   frames |-> Cardinality(c.S.free) - Cardinality(l.S.free)]
        Loaded(l) ==
          IF l.result # 0
          THEN Fail([c EXCEPT !.S = l.S, !.proc.mm = l.mm,
                              !.proc.entry_point = l.entry_point, !.load = Log(l)], -5)
          ELSE [c EXCEPT !.S = l.S,
                         !.proc.mm = [l.mm EXCEPT !.start_brk = l.initial_brk,
                                                  !.end_brk = l.initial_brk],
                         !.proc.entry_point = l.entry_point, !.load = Log(l)]
    IN Loaded(load_elf_and_init_memory(Note(c.S, "load_elf_and_init_memory", 0),
                                       c.proc.mm, elf, fault))

\* The standard VMAs with a refused heap insertion treated as fatal.
StepStandardVmasHeapFatal(c) ==
  IF c.st # "run" THEN c
  ELSE
    LET initial_brk_addr == c.proc.mm.start_brk
        Stack(stk) ==
          IF ~stk.ok THEN Fail([c EXCEPT !.proc.mm = stk.mm], -6)
          ELSE [c EXCEPT !.proc.mm = stk.mm, !.proc.user_stack_top = USER_STACK_TOP_VIRT_ADDR]
        Heap(heap) ==
          IF ~heap.ok THEN Fail(c, -6)
          ELSE Stack(insert_vma(heap.mm, USER_STACK_BOTTOM_VIRT, USER_STACK_TOP_VIRT_ADDR,
                                {VM_READ, VM_WRITE, VM_USER, VM_GROWS_DOWN, VM_ANONYMOUS},
                                PTE_USER_DATA_FLAGS))
    IN Heap(insert_vma(c.proc.mm, initial_brk_addr, initial_brk_addr,
                       {VM_READ, VM_WRITE, VM_USER, VM_ANONYMOUS}, PTE_USER_DATA_FLAGS))

StepStandardVmas(c) ==
  IF c.st # "run" THEN c
  ELSE
    LET initial_brk_addr == c.proc.mm.start_brk
        Stack(stk) ==
          IF ~stk.ok THEN Fail([c EXCEPT !.proc.mm = stk.mm], -6)
          ELSE [c EXCEPT !.proc.mm = stk.mm, !.proc.user_stack_top = USER_STACK_TOP_VIRT_ADDR]
        Heap(heap) ==
          Stack(insert_vma(heap.mm, USER_STACK_BOTTOM_VIRT, USER_STACK_TOP_VIRT_ADDR,
                           {VM_READ, VM_WRITE, VM_USER, VM_GROWS_DOWN, VM_ANONYMOUS},
                           PTE_USER_DATA_FLAGS))
    IN Heap(insert_vma(c.proc.mm, initial_brk_addr, initial_brk_addr,
                       {VM_READ, VM_WRITE, VM_USER, VM_ANONYMOUS}, PTE_USER_DATA_FLAGS))

\* The initial user-stack page placed at the bottom of the stack region.
StepUserStackPageAtBottom(c) ==
  IF c.st # "run" THEN c
  ELSE
    LET Mapped(a, m) ==
          IF m.res # 0
          THEN Fail([c EXCEPT !.S = m.S, !.initial_stack_phys_frame = a.p], -8)
          ELSE [c EXCEPT !.S = m.S, !.initial_stack_phys_frame = a.p,
                         !.initial_stack_mapped = TRUE]
        Allocated(a) ==
          IF a.p = 0 THEN Fail(c, -7)
          ELSE Mapped(a, paging_map_single_4k(a.S, c.proc.page_directory_phys,
                                              USER_STACK_BOTTOM_VIRT, a.p,
                                              PTE_USER_DATA_FLAGS))
    IN Allocated(frame_alloc(c.S))

StepUserStackPage(c) ==
  IF c.st # "run" THEN c
  ELSE
    LET Mapped(a, m) ==
          IF m.res # 0
          THEN Fail([c EXCEPT !.S = m.S, !.initial_stack_phys_frame = a.p], -8)
          ELSE [c EXCEPT !.S = m.S, !.initial_stack_phys_frame = a.p,
                         !.initial_stack_mapped = TRUE]
        Allocated(a) ==
          IF a.p = 0 THEN Fail(c, -7)
          ELSE Mapped(a, paging_map_single_4k(a.S, c.proc.page_directory_phys,
                                              USER_STACK_TOP_VIRT_ADDR - PAGE_SIZE, a.p,
                                              PTE_USER_DATA_FLAGS))
    IN Allocated(frame_alloc(c.S))

StepIretFrame(c) ==
  IF c.st # "run" THEN c
  ELSE LET Prepared(k) == [c EXCEPT !.S = k.S, !.proc.kernel_esp_for_switch = k.esp]
       IN Prepared(prepare_initial_kernel_stack(c.S, c.proc))

\* fail_create: the user-stack frame is put when it was allocated and not
\* mapped, then destroy_process releases what the PCB holds.
\* A failure cleanup that forgets the memory descriptor of the PCB.
FailCreateKeepsMm(c) ==
  IF c.st # "fail" THEN c
  ELSE
    [c EXCEPT !.S = destroy_process(
                      IF c.initial_stack_phys_frame # 0 /\ ~c.initial_stack_mapped
                      THEN put_frame(c.S, c.initial_stack_phys_frame) ELSE c.S,
                      [c.proc EXCEPT !.mm = NoMM]),
              !.proc = NoProc]

fail_create(c) ==
  IF c.st # "fail" THEN c
  ELSE
    [c EXCEPT !.S = destroy_process(
                      IF c.initial_stack_phys_frame # 0 /\ ~c.initial_stack_mapped
                      THEN put_frame(c.S, c.initial_stack_phys_frame) ELSE c.S,
                      c.proc),
              !.proc = NoProc]

\* create_user_process: the context after the call; proc = NoProc is NULL.
create_user_process(S, pid, kbase, tss, elf, fault) ==
  fail_create(
    StepIretFrame(
      StepUserStackPage(
        StepStandardVmas(
          StepLoadElf(
            StepMm(
              StepKernelStack(
                StepPageDirectory(StepPcb(S, pid, kbase, tss, fault), fault),
                fault),
              fault),
            elf, fault)))))

\* ------------------------------------------------------------------ inputs
Seg(vaddr, memsz, filesz, offset, flags) ==
  [p_type |-> PT_LOAD, p_vaddr |-> vaddr, p_memsz |-> memsz, p_filesz |-> filesz,
   p_offset |-> offset, p_flags |-> flags]

\* One segment of two pages, ten bytes of it from the file.
ElfMinimal ==
  [e_ident_mag |-> ELFMAG, ei_class |-> ELFCLASS32, ei_data |-> ELFDATA2LSB,
   e_type |-> ET_EXEC, e_machine |-> EM_386, e_version |-> EV_CURRENT,
   e_phentsize |-> SIZEOF_PHDR, e_phoff |-> SIZEOF_EHDR, e_phnum |-> 1,
   e_entry |-> PAGE_SIZE, file_size |-> SIZEOF_EHDR + SIZEOF_PHDR + 32,
   phdrs |-> << Seg(PAGE_SIZE, 2 * PAGE_SIZE, 10, SIZEOF_EHDR + SIZEOF_PHDR, {PF_R, PF_X}) >>]

\* A segment that starts four bytes into its first page.
ElfUnaligned ==
  [ElfMinimal EXCEPT !.e_entry = PAGE_SIZE + 4,
     !.phdrs = << Seg(PAGE_SIZE + 4, PAGE_SIZE + 4, 6, SIZEOF_EHDR + SIZEOF_PHDR, {PF_R, PF_W}) >>]

\* Text and data in the ranges of two different page tables.
ElfTwoSegments ==
  [ElfMinimal EXCEPT !.e_phnum = 2, !.file_size = SIZEOF_EHDR + (2 * SIZEOF_PHDR) + 32,
     !.phdrs = << Seg(PAGE_SIZE, PAGE_SIZE, PAGE_SIZE, SIZEOF_EHDR + (2 * SIZEOF_PHDR), {PF_R, PF_X}),
                  Seg(PT_SPAN, PAGE_SIZE + 8, 4, SIZEOF_EHDR + (2 * SIZEOF_PHDR) + PAGE_SIZE,
                      {PF_R, PF_W}) >>]

\* The entry point lies in kernel space.
ElfKernelEntry == [ElfMinimal EXCEPT !.e_entry = KERNEL_VIRT_BASE + 8]

\* A segment in the range of the user stack.
ElfStackClash ==
  [ElfMinimal EXCEPT !.e_entry = USER_STACK_BOTTOM_VIRT,
     !.phdrs = << Seg(USER_STACK_BOTTOM_VIRT, 8, 8, SIZEOF_EHDR + SIZEOF_PHDR, {PF_R, PF_X}) >>]

\* More file bytes than memory bytes.
ElfBadSegment ==
  [ElfMinimal EXCEPT
     !.phdrs = << Seg(PAGE_SIZE, 4, 8, SIZEOF_EHDR + SIZEOF_PHDR, {PF_R, PF_X}) >>]

\* A header that is not PT_LOAD, a PT_LOAD header with p_memsz = 0, and a
\* writable and executable segment that is not readable.
ElfMixedHeaders ==
  [ElfMinimal EXCEPT !.e_phnum = 3, !.file_size = SIZEOF_EHDR + (3 * SIZEOF_PHDR) + 32,
     !.e_entry = 2 * PAGE_SIZE,
     !.phdrs = << [Seg(PAGE_SIZE, PAGE_SIZE, 4, SIZEOF_EHDR + (3 * SIZEOF_PHDR), {PF_R})
                     EXCEPT !.p_type = 4],
                  Seg(PAGE_SIZE, 0, 0, SIZEOF_EHDR + (3 * SIZEOF_PHDR), {PF_R}),
                  Seg(2 * PAGE_SIZE, PAGE_SIZE + 2, 8, SIZEOF_EHDR + (3 * SIZEOF_PHDR),
                      {PF_W, PF_X}) >>]

\* The two segments of ElfTwoSegments with the higher one first in the file.
ElfReversed ==
  [ElfTwoSegments EXCEPT
     !.phdrs = << ElfTwoSegments.phdrs[2], ElfTwoSegments.phdrs[1] >>]

\* One segment of one page.
ElfOnePage ==
  [ElfMinimal EXCEPT
     !.phdrs = << Seg(PAGE_SIZE, 8, 8, SIZEOF_EHDR + SIZEOF_PHDR, {PF_R, PF_X}) >>]

\* Two segments whose bytes are apart but whose page-aligned spans share the
\* page at 2 * PAGE_SIZE.
ElfOverlap ==
  [ElfMinimal EXCEPT !.e_phnum = 2, !.file_size = SIZEOF_EHDR + (2 * SIZEOF_PHDR) + 32,
     !.phdrs = << Seg(PAGE_SIZE, PAGE_SIZE + 4, 8, SIZEOF_EHDR + (2 * SIZEOF_PHDR), {PF_R, PF_X}),
                  Seg((2 * PAGE_SIZE) + 8, 4, 4, SIZEOF_EHDR + (2 * SIZEOF_PHDR) + 8,
                      {PF_R, PF_W}) >>]

Elfs ==
  << ElfMinimal, ElfUnaligned, ElfTwoSegments, ElfKernelEntry, ElfStackClash, ElfBadSegment,
     [ElfMinimal EXCEPT !.e_ident_mag = << 127, 69, 76, 71 >>],
     [ElfMinimal EXCEPT !.ei_class = 2],
     [ElfMinimal EXCEPT !.ei_data = 2],
     [ElfMinimal EXCEPT !.e_type = 3],
     [ElfMinimal EXCEPT !.e_machine = 62],
     [ElfMinimal EXCEPT !.e_version = 0],
     [ElfMinimal EXCEPT !.e_phentsize = 56],
     [ElfMinimal EXCEPT !.e_phoff = SIZEOF_EHDR + 40],
     [ElfMinimal EXCEPT !.e_entry = 0],
     [ElfMinimal EXCEPT !.file_size = SIZEOF_EHDR - 1],
     [ElfMinimal EXCEPT !.e_phoff = 0],
     [ElfMinimal EXCEPT !.e_phnum = 0, !.phdrs = << >>],
     ElfMixedHeaders, ElfReversed, ElfOnePage, ElfOverlap >>

Faults ==
  {"none", "kmalloc_pcb", "temp_map_pd", "kmalloc_kstack", "create_mm", "read_file",
   "temp_map_elf"}

\* The calls of create_user_process: every file with no collaborator
\* failing, and each failure with a file that reaches the failing step.
Calls ==
  ((1..Len(Elfs)) \X {"none"})
    \cup ({1} \X Faults)
    \cup {<< 3, "temp_map_elf" >>}

\* -------------------------------------------------------------------- boot
\* Physical addresses and lengths of the boot code are in KiB: a page is 4,
\* 1 MiB is 1024, the 32-bit address space is 2^22.
MULTIBOOT2_BOOTLOADER_MAGIC == 920085129
MULTIBOOT_MEMORY_AVAILABLE == 1
BOOT_PAGE_SIZE == 4
LOW_MEMORY_LIMIT == 1024
MIN_HEAP_SIZE == 1024
MAX_ORDER_SIZE == 4096
PHYS_SPAN == 4194304
\* (uintptr_t)x and (size_t)x of a 64-bit value
Uintptr(x) == x % PHYS_SPAN

\* The part of a memory-map entry that find_largest_memory_area keeps:
\* [start, len] after the part below the end of the kernel image is cut.
UsablePart(entry, kernel_image_end_phys) ==
  LET entry_phys_start == Uintptr(entry.addr)
  IN IF entry_phys_start < kernel_image_end_phys
     THEN IF entry_phys_start + entry.len > kernel_image_end_phys
          THEN [start |-> kernel_image_end_phys,
                len |-> entry.len - (kernel_image_end_phys - entry_phys_start)]
          ELSE [start |-> entry_phys_start, len |-> 0]
     ELSE [start |-> entry_phys_start, len |-> entry.len]

\* The loop of find_largest_memory_area: [best_base, best_size].
RECURSIVE ScanMemoryMap(_, _, _, _)
ScanMemoryMap(entries, i, kernel_image_end_phys, best) ==
  IF i > Len(entries) THEN best
  ELSE
    LET Considered(u) ==
          IF /\ entries[i].type = MULTIBOOT_MEMORY_AVAILABLE
             /\ entries[i].addr >= LOW_MEMORY_LIMIT
             /\ u.len > best.best_size
          THEN [best_base |-> u.start, best_size |-> u.len]
          ELSE best
    IN ScanMemoryMap(entries, i + 1, kernel_image_end_phys,
                     Considered(UsablePart(entries[i], kernel_image_end_phys)))

\* find_largest_memory_area: [ok, base, size].
find_largest_memory_area(entries, kernel_image_end_phys) ==
  LET Selected(best) ==
        IF best.best_size > 0
        THEN [ok |-> TRUE, base |-> best.best_base, size |-> Uintptr(best.best_size)]
        ELSE [ok |-> FALSE, base |-> 0, size |-> 0]
  IN Selected(ScanMemoryMap(entries, 1, kernel_image_end_phys,
                            [best_base |-> 0, best_size |-> 0]))

NoRegion == [called |-> FALSE, base |-> 0, size |-> 0]

\* init_memory_management: [ok, buddy]; buddy is the region handed to
\* buddy_init, when it was called.  late_failure stands for a failure of
\* the buddy allocator or of the paging setup after buddy_init.
init_memory_management(has_mmap, entries, kernel_image_end_phys, late_failure) ==
  LET Aligned(heap_phys_start, heap_size, aligned_heap_start) ==
        IF heap_size <= Uintptr(aligned_heap_start - heap_phys_start)
        THEN [ok |-> FALSE, buddy |-> NoRegion]
        ELSE [ok |-> ~late_failure,
              buddy |-> [called |-> TRUE, base |-> aligned_heap_start,
                         size |-> heap_size - Uintptr(aligned_heap_start - heap_phys_start)]]
      Clamped(heap_phys_start, heap_size) ==
        IF heap_size < MIN_HEAP_SIZE THEN [ok |-> FALSE, buddy |-> NoRegion]
        ELSE Aligned(heap_phys_start, heap_size,
                     Uintptr(heap_phys_start + BOOT_PAGE_SIZE - 1)
                       - (Uintptr(heap_phys_start + BOOT_PAGE_SIZE - 1) % BOOT_PAGE_SIZE))
      Found(r) ==
        IF ~r.ok THEN [ok |-> FALSE, buddy |-> NoRegion]
        ELSE Clamped(r.base, IF r.size > MAX_ORDER_SIZE THEN MAX_ORDER_SIZE ELSE r.size)
  IN IF ~has_mmap THEN [ok |-> FALSE, buddy |-> NoRegion]
     ELSE Found(find_largest_memory_area(entries, kernel_image_end_phys))

\* main before it is entered.  interrupts is the interrupt flag: the boot
\* loader enters the kernel with interrupts disabled.
PowerOff ==
  [pc |-> "off", magic |-> 0, has_mmap |-> FALSE, entries |-> << >>,
   kernel_image_end_phys |-> 0, late_failure |-> FALSE,
   initialised |-> {}, interrupts |-> FALSE, memory_ok |-> FALSE, buddy |-> NoRegion,
   user_process_created |-> FALSE]

\* --------------------------------------------------------------- FAT directory
\* A volume is [next, data]: next is the file allocation table over the data
\* clusters (0 free, EOC_MARKER end of chain, otherwise the following cluster)
\* and data gives every cluster its directory slots.  The geometry is scaled:
\* two 32-byte entries to a sector, two sectors to a cluster.  A slot is
\* [name0, lfn, id, attr, cluster]: its first byte, whether its attribute is
\* LONG_NAME, the name it spells (the checksum of a long-name entry is that of
\* the 8.3 name id), its other attribute bits and its first cluster.  The
\* volume is FAT32: the root directory is a cluster chain.
MaxCluster == 6
MaxFiles == 3
Clusters == 2..MaxCluster
FAT_DIR_ENTRY_SIZE == 32
BYTES_PER_SECTOR == 64
SECTORS_PER_CLUSTER == 2
EOC_MARKER == 15
FAT_DIR_ENTRY_UNUSED == 0
FAT_DIR_ENTRY_DELETED == 229
FAT_MAX_LFN_ENTRIES == 20
NO_OFFSET == -1
FAT_ATTR_READ_ONLY == "READ_ONLY"
FAT_ATTR_VOLUME_ID == "VOLUME_ID"
FAT_ATTR_DIRECTORY == "DIRECTORY"
SIZE_MAX == 255
SLASH == 47
DOT == 46
UnusedSlot ==
  [name0 |-> FAT_DIR_ENTRY_UNUSED, lfn |-> FALSE, id |-> 0, attr |-> {}, cluster |-> 0]

\* The cluster hops links after cluster, EOC_MARKER when the chain ends
\* before (the hop loops of read_directory_sector, update_directory_entry and
\* mark_directory_entries_deleted).
RECURSIVE ClusterAfter(_, _, _)
ClusterAfter(F, cluster, hops) ==
  IF hops = 0 THEN cluster
  ELSE IF F.next[cluster] \notin Clusters THEN EOC_MARKER
  ELSE ClusterAfter(F, F.next[cluster], hops - 1)

read_directory_sector(F, cluster, sector_offset_in_chain) ==
  LET n == BYTES_PER_SECTOR \div FAT_DIR_ENTRY_SIZE
      c == ClusterAfter(F, cluster, sector_offset_in_chain \div SECTORS_PER_CLUSTER)
      s == sector_offset_in_chain % SECTORS_PER_CLUSTER
  IN  IF cluster \notin Clusters THEN [ret |-> "INVALID_PARAM", data |-> << >>]
      ELSE IF c \notin Clusters THEN [ret |-> "NOT_FOUND", data |-> << >>]
      ELSE [ret |-> "SUCCESS", data |-> SubSeq(F.data[c], s * n + 1, s * n + n)]

\* The slot that byte offset dir_offset of the directory starting at
\* dir_cluster is resolved to: cluster_hop_count links from dir_cluster, then
\* the sector and the entry in it.  cluster is EOC_MARKER beyond the chain.
ResolveOffset(F, dir_cluster, dir_offset) ==
  LET sector_offset_in_chain == dir_offset \div BYTES_PER_SECTOR
      offset_in_sector == dir_offset % BYTES_PER_SECTOR
      cluster_hop_count == sector_offset_in_chain \div SECTORS_PER_CLUSTER
      sector_in_final_cluster == sector_offset_in_chain % SECTORS_PER_CLUSTER
  IN  [cluster |-> ClusterAfter(F, dir_cluster, cluster_hop_count),
       index |-> sector_in_final_cluster * (BYTES_PER_SECTOR \div FAT_DIR_ENTRY_SIZE)
                   + offset_in_sector \div FAT_DIR_ENTRY_SIZE + 1]

\* fat_find_in_dir.  FindScan is its loop from entry e_idx of the sector at
\* current_byte_offset of current_cluster; lfn is the collector: how many
\* long-name entries it holds, the name they spell and where the run began.
fat_find_in_dir(F, dir_cluster, component) ==
  LET RECURSIVE FindScan(_, _, _, _)
      FindScan(current_cluster, current_byte_offset, e_idx, lfn) ==
        LET NotFound == [ret |-> "NOT_FOUND", entry |-> UnusedSlot, entry_offset |-> 0,
                         first_lfn_offset |-> NO_OFFSET]
            NoLfn == [count |-> 0, id |-> 0, start |-> NO_OFFSET]
            sector == read_directory_sector(F, current_cluster,
                                            current_byte_offset \div BYTES_PER_SECTOR)
        IN
        IF current_cluster >= EOC_MARKER THEN NotFound
        ELSE IF e_idx = BYTES_PER_SECTOR \div FAT_DIR_ENTRY_SIZE THEN
          IF (current_byte_offset + BYTES_PER_SECTOR) % (BYTES_PER_SECTOR * SECTORS_PER_CLUSTER) = 0
            THEN IF F.next[current_cluster] >= EOC_MARKER THEN NotFound
                 ELSE FindScan(F.next[current_cluster], 0, 0, lfn)
            ELSE FindScan(current_cluster, current_byte_offset + BYTES_PER_SECTOR,
                          0, lfn)
        ELSE IF sector.ret # "SUCCESS" THEN [NotFound EXCEPT !.ret = sector.ret]
        ELSE
          LET de == sector.data[e_idx + 1]
              entry_abs_offset == current_byte_offset + e_idx * FAT_DIR_ENTRY_SIZE
              checksum_ok == lfn.count > 0 /\ lfn.id = de.id
              match == de.id = component
          IN
          IF de.name0 = FAT_DIR_ENTRY_UNUSED THEN NotFound
          ELSE IF de.name0 = FAT_DIR_ENTRY_DELETED
            THEN FindScan(current_cluster, current_byte_offset, e_idx + 1, NoLfn)
          ELSE IF FAT_ATTR_VOLUME_ID \in de.attr /\ ~de.lfn
            THEN FindScan(current_cluster, current_byte_offset, e_idx + 1, NoLfn)
          ELSE IF de.lfn
            THEN FindScan(current_cluster, current_byte_offset, e_idx + 1,
                          IF lfn.count = 0
                            THEN [count |-> 1, id |-> de.id, start |-> entry_abs_offset]
                          ELSE IF lfn.count < FAT_MAX_LFN_ENTRIES
                            THEN [lfn EXCEPT !.count = @ + 1]
                          ELSE NoLfn)
          ELSE IF match
            THEN [ret |-> "SUCCESS", entry |-> de, entry_offset |-> entry_abs_offset,
                  first_lfn_offset |-> IF checksum_ok THEN lfn.start ELSE NO_OFFSET]
          ELSE FindScan(current_cluster, current_byte_offset, e_idx + 1, NoLfn)
  IN  FindScan(dir_cluster, 0, 0, [count |-> 0, id |-> 0, start |-> NO_OFFSET])

\* A path is a sequence of characters: SLASH, DOT and the one-letter names
\* 1..MaxFiles of the files.  strtok(path, "/") gives its components, the
\* maximal runs without a SLASH, in order.
strtok(path) ==
  LET RECURSIVE Split(_, _, _)
      Split(i, token, tokens) ==
        IF i > Len(path)
          THEN IF token = << >> THEN tokens ELSE Append(tokens, token)
        ELSE IF path[i] = SLASH
          THEN Split(i + 1, << >>, IF token = << >> THEN tokens ELSE Append(tokens, token))
        ELSE Split(i + 1, Append(token, path[i]), tokens)
  IN  Split(1, << >>, << >>)

\* The file a component names: components of one letter name files, every
\* other component is the name of no file.
ComponentName(component) == IF Len(component) = 1 THEN component[1] ELSE 0

\* fat_lookup_path.  Walk is its loop over the components that are left, in
\* the directory at current_dir_cluster; on failure entry_out is not written.
fat_lookup_path(F, root_cluster, path) ==
  LET Failed(ret) == [ret |-> ret, entry |-> UnusedSlot, entry_dir_cluster |-> 0,
                      entry_offset_in_dir |-> 0]
      RECURSIVE Walk(_, _)
      Walk(components, current_dir_cluster) ==
        IF components = << >> THEN Failed("NOT_FOUND")
        ELSE IF Head(components) = << DOT >> THEN Walk(Tail(components), current_dir_cluster)
        ELSE IF Head(components) = << DOT, DOT >> THEN Failed("NOT_SUPPORTED")
        ELSE
          LET Found(f) ==
                IF f.ret # "SUCCESS" THEN Failed(f.ret)
                ELSE IF Len(components) = 1
                  THEN [ret |-> "SUCCESS", entry |-> f.entry,
                        entry_dir_cluster |-> current_dir_cluster,
                        entry_offset_in_dir |-> f.entry_offset]
                ELSE IF FAT_ATTR_DIRECTORY \notin f.entry.attr THEN Failed("NOT_A_DIRECTORY")
                ELSE Walk(Tail(components), f.entry.cluster)
          IN  Found(fat_find_in_dir(F, current_dir_cluster,
                                    ComponentName(Head(components))))
  IN  IF path = << >> \/ path = << SLASH >>
        THEN [ret |-> "SUCCESS",
              entry |-> [UnusedSlot EXCEPT !.attr = {FAT_ATTR_DIRECTORY},
                                           !.cluster = root_cluster],
              entry_dir_cluster |-> 0, entry_offset_in_dir |-> 0]
      ELSE Walk(strtok(path), root_cluster)

RECURSIVE mark_directory_entries_deleted(_, _, _, _, _)
mark_directory_entries_deleted(F, dir_cluster, current_offset, num_entries, marker) ==
  LET at == ResolveOffset(F, dir_cluster, current_offset)
  IN  IF num_entries = 0 THEN [ret |-> "SUCCESS", F |-> F]
      ELSE IF dir_cluster \notin Clusters \/ at.cluster \notin Clusters
        THEN [ret |-> "INVALID_PARAM", F |-> F]
      ELSE mark_directory_entries_deleted(
             [F EXCEPT !.data[at.cluster][at.index].name0 = marker], dir_cluster,
             current_offset + FAT_DIR_ENTRY_SIZE, num_entries - 1, marker)

\* fs_util_split_path: the path before its last SLASH (the root for a file
\* directly under it) and the component after it; it fails on a name that is
\* too long, which too_long stands for.
fs_util_split_path(path, too_long) ==
  LET slashes == {i \in 1..Len(path) : path[i] = SLASH}
      last == IF slashes = {} THEN 0 ELSE CHOOSE i \in slashes : \A j \in slashes : j <= i
  IN  [ret |-> IF too_long THEN -1 ELSE 0,
       parent_path |-> IF last <= 1 THEN << SLASH >> ELSE SubSeq(path, 1, last - 1),
       component_name |-> SubSeq(path, last + 1, Len(path))]

\* fat_free_cluster_chain: every cluster of the chain from start_cluster is
\* made free; an error leaves the table as it was.
fat_free_cluster_chain(F, start_cluster, fails) ==
  LET RECURSIVE Chain(_, _)
      Chain(c, hops) ==
        IF c \notin Clusters \/ hops = 0 THEN {} ELSE {c} \cup Chain(F.next[c], hops - 1)
  IN  IF fails THEN [ret |-> "IO", F |-> F]
      ELSE [ret |-> "SUCCESS",
            F |-> [F EXCEPT !.next = [c \in Clusters |->
                                       IF c \in Chain(start_cluster, MaxCluster)
                                         THEN 0 ELSE F.next[c]]]]

\* fat_unlink_internal: [ret, F, lock]; lock lists what the call did to
\* fs->lock.  fault is the collaborator that fails: "null" a NULL argument,
\* "split" fs_util_split_path, "free" fat_free_cluster_chain.
fat_unlink_internal(F, root_cluster, path, fault) ==
  LET Locked(ret, G) == [ret |-> ret, F |-> G, lock |-> << "acquire", "release" >>]
      Marked(ret, m) == IF m.ret # "SUCCESS" THEN Locked(m.ret, m.F) ELSE Locked(ret, m.F)
      Delete(parent_cluster, found, ret, G) ==
        LET entry_offset == found.entry_offset
            first_lfn_offset == found.first_lfn_offset
            with_lfn == first_lfn_offset # NO_OFFSET /\ first_lfn_offset < entry_offset
            num_entries_to_mark ==
              IF with_lfn THEN (entry_offset - first_lfn_offset) \div FAT_DIR_ENTRY_SIZE + 1
              ELSE 1
            mark_start_offset == IF with_lfn THEN first_lfn_offset ELSE entry_offset
        IN  Marked(ret, mark_directory_entries_deleted(G, parent_cluster, mark_start_offset,
                                                       num_entries_to_mark,
                                                       FAT_DIR_ENTRY_DELETED))
      Freed(parent_cluster, found, free) ==
        Delete(parent_cluster, found, free.ret, free.F)
      Found(parent_cluster, found) ==
        IF found.ret # "SUCCESS" THEN Locked(found.ret, F)
        ELSE IF FAT_ATTR_DIRECTORY \in found.entry.attr THEN Locked("IS_A_DIRECTORY", F)
        ELSE IF FAT_ATTR_READ_ONLY \in found.entry.attr THEN Locked("PERMISSION_DENIED", F)
        ELSE IF found.entry.cluster >= 2
          THEN Freed(parent_cluster, found,
                     fat_free_cluster_chain(F, found.entry.cluster, fault = "free"))
        ELSE Delete(parent_cluster, found, "SUCCESS", F)
      Parent(split, parent) ==
        IF parent.ret # "SUCCESS" THEN Locked(parent.ret, F)
        ELSE IF FAT_ATTR_DIRECTORY \notin parent.entry.attr THEN Locked("NOT_A_DIRECTORY", F)
        ELSE Found(parent.entry.cluster,
                   fat_find_in_dir(F, parent.entry.cluster,
                                   ComponentName(split.component_name)))
      Split(split) ==
        IF split.ret # 0 THEN Locked("NAMETOOLONG", F)
        ELSE IF split.component_name \in {<< >>, << DOT >>, << DOT, DOT >>}
          THEN Locked("INVALID_PARAM", F)
        ELSE Parent(split, fat_lookup_path(F, root_cluster, split.parent_path))
  IN  IF fault = "null" THEN [ret |-> "INVALID_PARAM", F |-> F, lock |-> << >>]
      ELSE Split(fs_util_split_path(path, fault = "split"))

\* fat_allocate_cluster(previous): the lowest free cluster, marked end of chain
\* and linked after previous; cluster 0 when the volume is full.
fat_allocate_cluster(F, previous_cluster) ==
  LET free == {c \in Clusters : F.next[c] = 0}
      new_cluster == CHOOSE c \in free : \A d \in free : c <= d
  IN  IF free = {} THEN [cluster |-> 0, F |-> F]
      ELSE [cluster |-> new_cluster,
            F |-> [F EXCEPT !.next =
                     [c \in Clusters |->
                        IF c = new_cluster THEN EOC_MARKER
                        ELSE IF c = previous_cluster THEN new_cluster
                        ELSE F.next[c]]]]

\* find_free_directory_slot.  FreeSlotScan is its scanning loop.
find_free_directory_slot(F, parent_dir_cluster, needed_slots) ==
  LET RECURSIVE FreeSlotScan(_, _, _, _, _, _)
      FreeSlotScan(current_cluster, last_valid_cluster, current_byte_offset,
                   e_idx, contiguous_free_count, potential_start_offset) ==
        LET NoSpace == [ret |-> "NO_SPACE", slot_cluster |-> 0, slot_offset |-> 0,
                        last_valid_cluster |-> last_valid_cluster]
            sector == read_directory_sector(F, current_cluster,
                                            current_byte_offset \div BYTES_PER_SECTOR)
        IN
        IF current_cluster >= EOC_MARKER THEN NoSpace
        ELSE IF e_idx = BYTES_PER_SECTOR \div FAT_DIR_ENTRY_SIZE THEN
          IF (current_byte_offset + BYTES_PER_SECTOR) % (BYTES_PER_SECTOR * SECTORS_PER_CLUSTER) = 0
            THEN IF F.next[current_cluster] >= EOC_MARKER
                   THEN [NoSpace EXCEPT !.last_valid_cluster = current_cluster]
                 ELSE FreeSlotScan(F.next[current_cluster], current_cluster,
                                   0, 0, 0, potential_start_offset)
            ELSE FreeSlotScan(current_cluster, last_valid_cluster,
                              current_byte_offset + BYTES_PER_SECTOR, 0, contiguous_free_count,
                              potential_start_offset)
        ELSE IF sector.ret # "SUCCESS" THEN [NoSpace EXCEPT !.ret = sector.ret]
        ELSE
          LET de == sector.data[e_idx + 1]
              entry_abs_offset == current_byte_offset + e_idx * FAT_DIR_ENTRY_SIZE
              is_free == de.name0 \in {FAT_DIR_ENTRY_UNUSED, FAT_DIR_ENTRY_DELETED}
              count == IF is_free THEN contiguous_free_count + 1 ELSE 0
              start == IF is_free /\ contiguous_free_count = 0 THEN entry_abs_offset
                       ELSE potential_start_offset
          IN
          IF is_free /\ count >= needed_slots
            THEN [ret |-> "SUCCESS", slot_cluster |-> current_cluster, slot_offset |-> start,
                  last_valid_cluster |-> last_valid_cluster]
          ELSE IF de.name0 = FAT_DIR_ENTRY_UNUSED THEN NoSpace
          ELSE FreeSlotScan(current_cluster, last_valid_cluster,
                            current_byte_offset, e_idx + 1, count, start)
      scan == FreeSlotScan(parent_dir_cluster, parent_dir_cluster, 0, 0, 0, 0)
      Extend(a) ==
        IF a.cluster = 0
          THEN [ret |-> "NO_SPACE", slot_cluster |-> 0, slot_offset |-> 0, F |-> F,
                extended |-> FALSE]
          ELSE [ret |-> "SUCCESS", slot_cluster |-> a.cluster, slot_offset |-> 0,
                F |-> [a.F EXCEPT
                         !.data[a.cluster] =
                           [j \in 1..Len(@) |-> UnusedSlot],
                         !.next[scan.last_valid_cluster] = a.cluster,
                         !.next[a.cluster] = EOC_MARKER],
                extended |-> TRUE]
  IN  IF scan.ret = "NO_SPACE" THEN Extend(fat_allocate_cluster(F, scan.last_valid_cluster))
      ELSE [ret |-> scan.ret, slot_cluster |-> scan.slot_cluster,
            slot_offset |-> scan.slot_offset, F |-> F, extended |-> FALSE]

\* Directory images.  The root directory holds up to MaxFiles items, item i
\* being file i with 0 to 3 long-name entries before its 8.3 entry (kind 0..3),
\* a slot deleted earlier (kind -2) or a volume label (kind -1).  File 2 owns
\* the data cluster MaxCluster and file 3 is a directory at cluster
\* MaxCluster - 1, which holds a read-only file 1 and a file 2 with one
\* long-name entry; every other file is an ordinary one without clusters.
\* FatFormat lays the items out from the start of a chain that takes its
\* clusters in the order 2, 4, 3, 5, ..., fills the rest of the chain with
\* 0x00 slots, and leaves stale entries in the clusters that are free.
FatImages ==
  LET per == (BYTES_PER_SECTOR \div FAT_DIR_ENTRY_SIZE) * SECTORS_PER_CLUSTER
      Short(id, attr, cluster) ==
        [name0 |-> 64 + id, lfn |-> FALSE, id |-> id, attr |-> attr, cluster |-> cluster]
      Long(id, seq) == [name0 |-> seq, lfn |-> TRUE, id |-> id, attr |-> {}, cluster |-> 0]
      ItemSlots(i, kind) ==
        IF kind = -2 THEN << [UnusedSlot EXCEPT !.name0 = FAT_DIR_ENTRY_DELETED] >>
        ELSE IF kind = -1 THEN << Short(0, {FAT_ATTR_VOLUME_ID}, 0) >>
        ELSE [k \in 1..(kind + 1) |->
                IF k <= kind THEN Long(i, kind - k + 1)
                ELSE IF i = 2 THEN Short(i, {}, MaxCluster)
                ELSE IF i = 3 THEN Short(i, {FAT_ATTR_DIRECTORY}, MaxCluster - 1)
                ELSE Short(i, {}, 0)]
      RECURSIVE DirSlots(_, _)
      DirSlots(items, i) ==
        IF i > Len(items) THEN << >> ELSE ItemSlots(i, items[i]) \o DirSlots(items, i + 1)
      Live(items, i) == i <= Len(items) /\ items[i] >= 0
      chain == [i \in 1..(MaxCluster - 3) |->
                  IF i = 1 THEN 2 ELSE IF i = 2 THEN 4 ELSE IF i = 3 THEN 3 ELSE i + 1]
      Subdirectory ==
        [j \in 1..per |->
           IF j = 1 THEN Short(1, {FAT_ATTR_READ_ONLY}, 0)
           ELSE IF j = 2 THEN Long(2, 1)
           ELSE IF j = 3 THEN Short(2, {}, 0)
           ELSE UnusedSlot]
      FatFormat(items, slots) ==
        LET k == MAX(1, (Len(slots) + per - 1) \div per)
            Pos(c) == IF \E i \in 1..k : chain[i] = c
                        THEN CHOOSE i \in 1..k : chain[i] = c ELSE 0
            Owned(c) == \/ c = MaxCluster /\ Live(items, 2)
                        \/ c = MaxCluster - 1 /\ Live(items, 3)
        IN  [next |-> [c \in Clusters |->
                         IF Pos(c) = 0 THEN IF Owned(c) THEN EOC_MARKER ELSE 0
                         ELSE IF Pos(c) = k THEN EOC_MARKER
                         ELSE chain[Pos(c) + 1]],
             data |-> [c \in Clusters |->
                         [j \in 1..per |->
                            IF Pos(c) = 0
                              THEN IF c = MaxCluster - 1 /\ Live(items, 3) THEN Subdirectory[j]
                                   ELSE Short(MaxFiles + 1, {}, 0)
                            ELSE IF (Pos(c) - 1) * per + j <= Len(slots)
                              THEN slots[(Pos(c) - 1) * per + j]
                            ELSE UnusedSlot]]]
  IN  {FatFormat(items, DirSlots(items, 1)) :
         items \in UNION {[1..n -> -2..(per - 1)] : n \in 1..MaxFiles}}

\* The part of fat_file_context_t that fat_readdir_internal works on; no file
\* is open.  readdir_last_index is a size_t, (size_t)-1 before the first entry.
NoContext ==
  [open |-> FALSE, first_cluster |-> 0, is_directory |-> FALSE,
   readdir_current_cluster |-> 0, readdir_current_offset |-> 0,
   readdir_last_index |-> SIZE_MAX]

\* fat_open_internal: [vnode, ret_err, lock]; vnode is the context of the open
\* file, NoContext for NULL.  fault is the collaborator that fails: "null" a
\* NULL argument, "create" fat_create_file, "truncate" fat_truncate_file,
\* "kmalloc" the allocation of the vnode.  Of the entry of a file the model
\* keeps the attributes and the first cluster; a file has a size above 0 when
\* it has a cluster.  What fat_create_file and fat_truncate_file write to the
\* volume is not part of the model.
fat_open_internal(F, root_cluster, path, flags, fault) ==
  LET Failed(ret_err) ==
        [vnode |-> NoContext, ret_err |-> ret_err, lock |-> << "acquire", "release" >>]
      Setup(entry) ==
        IF fault = "kmalloc" THEN Failed("OUT_OF_MEMORY")
        ELSE [vnode |-> [open |-> TRUE, first_cluster |-> entry.cluster,
                         is_directory |-> FAT_ATTR_DIRECTORY \in entry.attr,
                         readdir_current_cluster |-> entry.cluster,
                         readdir_current_offset |-> 0,
                         readdir_last_index |-> SIZE_MAX],
              ret_err |-> "SUCCESS", lock |-> << "acquire", "release" >>]
      Checks(entry, created) ==
        LET is_dir == FAT_ATTR_DIRECTORY \in entry.attr
        IN  IF is_dir /\ flags \cap {"O_WRONLY", "O_RDWR", "O_TRUNC"} # {}
              THEN Failed("IS_A_DIRECTORY")
            ELSE IF ~is_dir /\ ~created /\ "O_TRUNC" \in flags /\ entry.cluster # 0
              THEN IF fault = "truncate" THEN Failed("IO")
                   ELSE Setup([entry EXCEPT !.cluster = 0])
            ELSE Setup(entry)
      Lookup(find) ==
        IF find.ret = "SUCCESS" THEN Checks(find.entry, FALSE)
        ELSE IF "O_CREAT" \in flags
          THEN IF fault = "create" THEN Failed("NO_SPACE") ELSE Checks(UnusedSlot, TRUE)
        ELSE Failed("NOT_FOUND")
  IN  IF fault = "null"
        THEN [vnode |-> NoContext, ret_err |-> "INVALID_PARAM", lock |-> << >>]
      ELSE Lookup(fat_lookup_path(F, root_cluster, path))

\* fat_readdir_internal: [ret, fctx, entry, lock].  Scan is the body of its
\* while loop and Entries the for loop over the entries of the sector read.
\* fault is the collaborator that fails: "null" a NULL argument, "kmalloc"
\* the allocation of the sector buffer, "read" the read of a sector.
fat_readdir_internal(F, fctx, entry_index, fault) ==
  LET entries_per_sector == BYTES_PER_SECTOR \div FAT_DIR_ENTRY_SIZE
      cluster_size_bytes == BYTES_PER_SECTOR * SECTORS_PER_CLUSTER
      Done(ret, c, dent) ==
        [ret |-> ret, fctx |-> c, entry |-> dent, lock |-> << "acquire", "release" >>]
      RECURSIVE Scan(_, _, _), Entries(_, _, _, _, _)
      Scan(c, lfn_count, current_logical_index) ==
        LET Read(sector) ==
              IF fault = "read" THEN Done("IO", c, UnusedSlot)
              ELSE IF sector.ret # "SUCCESS" THEN Done(sector.ret, c, UnusedSlot)
              ELSE Entries(c, (c.readdir_current_offset % BYTES_PER_SECTOR)
                                \div FAT_DIR_ENTRY_SIZE,
                           sector.data, lfn_count, current_logical_index)
        IN  IF c.readdir_current_cluster >= EOC_MARKER THEN Done("NOT_FOUND", c, UnusedSlot)
            ELSE Read(read_directory_sector(F, c.readdir_current_cluster,
                                            c.readdir_current_offset \div BYTES_PER_SECTOR))
      Entries(c, e_i, sector_buffer, lfn_count, current_logical_index) ==
        IF e_i >= entries_per_sector THEN
          IF c.readdir_current_offset % cluster_size_bytes = 0 /\ c.readdir_current_offset > 0
            THEN IF F.next[c.readdir_current_cluster] >= EOC_MARKER
                   THEN Done("NOT_FOUND", c, UnusedSlot)
                 ELSE Scan([c EXCEPT !.readdir_current_cluster = F.next[@],
                                     !.readdir_current_offset = 0],
                           lfn_count, current_logical_index)
            ELSE Scan(c, lfn_count, current_logical_index)
        ELSE
          LET dent == sector_buffer[e_i + 1]
              c1 == [c EXCEPT !.readdir_current_offset = @ + FAT_DIR_ENTRY_SIZE]
          IN  IF dent.name0 = FAT_DIR_ENTRY_UNUSED THEN Done("NOT_FOUND", c1, UnusedSlot)
              ELSE IF dent.name0 = FAT_DIR_ENTRY_DELETED
                THEN Entries(c1, e_i + 1, sector_buffer, 0, current_logical_index)
              ELSE IF FAT_ATTR_VOLUME_ID \in dent.attr /\ ~dent.lfn
                THEN Entries(c1, e_i + 1, sector_buffer, 0, current_logical_index)
              ELSE IF dent.lfn
                THEN Entries(c1, e_i + 1, sector_buffer,
                             IF lfn_count < FAT_MAX_LFN_ENTRIES THEN lfn_count + 1 ELSE 0,
                             current_logical_index)
              ELSE IF current_logical_index = entry_index
                THEN Done("SUCCESS", [c1 EXCEPT !.readdir_last_index = entry_index], dent)
              ELSE Entries(c1, e_i + 1, sector_buffer, 0, current_logical_index + 1)
      Buffer(c) ==
        IF fault = "kmalloc" THEN Done("OUT_OF_MEMORY", c, UnusedSlot)
        ELSE Scan(c, 0, (c.readdir_last_index + 1) % (SIZE_MAX + 1))
  IN  IF fault = "null"
        THEN [ret |-> "INVALID_PARAM", fctx |-> fctx, entry |-> UnusedSlot, lock |-> << >>]
      ELSE IF ~fctx.is_directory
        THEN [ret |-> "NOT_A_DIRECTORY", fctx |-> fctx, entry |-> UnusedSlot, lock |-> << >>]
      ELSE IF entry_index = 0 \/ entry_index <= fctx.readdir_last_index
        THEN Buffer([fctx EXCEPT !.readdir_current_cluster = fctx.first_cluster,
                                 !.readdir_current_offset = 0,
                                 !.readdir_last_index = SIZE_MAX])
      ELSE IF entry_index # (fctx.readdir_last_index + 1) % (SIZE_MAX + 1)
        THEN Done("INVALID_PARAM", fctx, UnusedSlot)
      ELSE Buffer(fctx)

\* No volume mounted yet, and no call made.  lock is fs->lock, listing the
\* entries that fat_readdir_internal returned since the directory was opened
\* and in_order whether it was called with entry_index 0, 1, 2, ... so far.
Unmounted ==
  LET blank == [next |-> [c \in Clusters |-> 0],
                data |-> [c \in Clusters |-> << >>]]
  IN  [pc |-> "unmounted", root_cluster |-> 2, next |-> blank.next, data |-> blank.data,
       lock |-> 0, fctx |-> NoContext, listing |-> << >>, in_order |-> TRUE,
       op |-> [name |-> "none", arg |-> 0, path |-> << >>, fault |-> "none",
               ret |-> "none", entry |-> UnusedSlot,
               entry_offset |-> 0, first_lfn_offset |-> NO_OFFSET, slot_cluster |-> 0,
               slot_offset |-> 0, extended |-> FALSE, lock |-> << >>, before |-> blank]]

\* ------------------------------------------------------------------- state
VARIABLES
  refcount,       \* frame -> reference count
  buddy_free,     \* the frames of the buddy allocator
  kernel_pd,      \* the kernel page directory
  pd_mem,         \* frame -> page directory held in it
  pt_mem,         \* frame -> page table held in it
  frame_mem,      \* frame -> bytes
  temp_slot,      \* frame at PAGING_TEMP_VADDR, 0 when free
  bad_puts,       \* decrements applied to a frame whose count was 0
  next_pid,
  g_next_kernel_stack_virt_base,
  tss_esp0,
  procs,          \* the PCBs returned by create_user_process and not destroyed
  last,           \* what the last completed call was and did
  seq_only,       \* so far every call was a successful create or a destroy
  events,         \* the observed calls of the last operation, oldest first
  probe,          \* the last loader run on a single-segment file, and its outcome
  boot,           \* main: its position, its inputs and what it has done so far
  fat             \* the FAT volume: its table, one directory and the last call on it

vars ==
  << refcount, buddy_free, kernel_pd, pd_mem, pt_mem, frame_mem, temp_slot, bad_puts,
     next_pid, g_next_kernel_stack_virt_base, tss_esp0, procs, last, seq_only,
     events, probe, boot, fat >>

Machine ==
  [rc |-> refcount, free |-> buddy_free, kpd |-> kernel_pd, pdm |-> pd_mem, ptm |-> pt_mem,
   dm |-> frame_mem, temp |-> temp_slot, bad |-> bad_puts, ev |-> << >>]

SetMachine(S) ==
  /\ refcount' = S.rc
  /\ buddy_free' = S.free
  /\ kernel_pd' = S.kpd
  /\ pd_mem' = S.pdm
  /\ pt_mem' = S.ptm
  /\ frame_mem' = S.dm
  /\ temp_slot' = S.temp
  /\ bad_puts' = S.bad
  /\ events' = S.ev

NoProbe == [done |-> FALSE, elf |-> ElfMinimal, result |-> 0, vmas |-> << >>]

NoCall ==
  [op |-> "none", elf |-> 0, fault |-> "none", ret |-> 0, status |-> 0, free_before |-> 0,
   tss_before |-> 0, load |-> NoLoad]

Init ==
  /\ refcount = BootMachine.rc
  /\ buddy_free = BootMachine.free
  /\ kernel_pd = BootMachine.kpd
  /\ pd_mem = BootMachine.pdm
  /\ pt_mem = BootMachine.ptm
  /\ frame_mem = BootMachine.dm
  /\ temp_slot = BootMachine.temp
  /\ bad_puts = BootMachine.bad
  /\ events = BootMachine.ev
  /\ next_pid = 1
  /\ g_next_kernel_stack_virt_base = KERNEL_STACK_VIRT_START
  /\ tss_esp0 = 0
  /\ procs = {}
  /\ last = NoCall
  /\ seq_only = TRUE
  /\ probe = NoProbe
  /\ boot = PowerOff
  /\ fat = Unmounted

\* create_user_process(path) for the file e, with the collaborator failure
\* fault (a kmalloc, read_file or paging_temp_map call that fails).
Create(e, fault) ==
  /\ next_pid < MaxPid
  /\ \E c \in {create_user_process(Machine, next_pid, g_next_kernel_stack_virt_base,
                                   tss_esp0, Elfs[e], fault)} :
        /\ SetMachine(c.S)
        /\ next_pid' = c.next_pid
        /\ g_next_kernel_stack_virt_base' = c.kbase
        /\ tss_esp0' = c.tss
        /\ procs' = IF c.proc = NoProc THEN procs ELSE procs \cup {c.proc}
        /\ last' = [op |-> "create", elf |-> e, fault |-> fault, ret |-> c.proc.pid,
                    status |-> IF c.proc = NoProc THEN c.ret_status ELSE 0,
                    free_before |-> buddy_free_space(Machine), tss_before |-> tss_esp0,
                    load |-> c.load]
        /\ seq_only' = (seq_only /\ c.proc # NoProc /\ procs = {})
        /\ UNCHANGED << probe, boot, fat >>

\* A destroy_process that hands the stack range of the PCB back by lowering
\* the bump pointer to its base.
DestroyLoweringPointer(pcb) ==
  /\ pcb \in procs
  /\ SetMachine(destroy_process(Machine, pcb))
  /\ procs' = procs \ {pcb}
  /\ last' = [NoCall EXCEPT !.op = "destroy", !.ret = pcb.pid,
                            !.free_before = buddy_free_space(Machine), !.tss_before = tss_esp0]
  /\ g_next_kernel_stack_virt_base' = pcb.kernel_stack_vaddr_top - PROCESS_KSTACK_SIZE
  /\ UNCHANGED << next_pid, tss_esp0, seq_only, probe, boot, fat >>

\* destroy_process(pcb) for a PCB that create_user_process returned.
Destroy(pcb) ==
  /\ pcb \in procs
  /\ SetMachine(destroy_process(Machine, pcb))
  /\ procs' = procs \ {pcb}
  /\ last' = [NoCall EXCEPT !.op = "destroy", !.ret = pcb.pid,
                            !.free_before = buddy_free_space(Machine), !.tss_before = tss_esp0]
  /\ UNCHANGED << next_pid, g_next_kernel_stack_virt_base, tss_esp0, seq_only, probe, boot, fat >>

Next ==
  \/ \E call \in Calls : Create(call[1], call[2])
  \/ \E pcb \in procs : Destroy(pcb)

Spec == Init /\ [][Next]_vars

\* ------------------------------------------------- the loader on one segment
\* Segment geometries around the limits of the 32-bit arithmetic: the page
\* boundaries, KERNEL_VIRT_BASE, the end of the file, the largest value.
ProbeElf(vaddr, memsz, filesz, offset) ==
  [ElfMinimal EXCEPT !.e_entry = PAGE_SIZE,
                     !.phdrs = << Seg(vaddr, memsz, filesz, offset, {PF_R, PF_W}) >>]

\* load_elf_and_init_memory for an empty mm whose directory is a frame just
\* allocated, as create_user_process calls it.
ProbeLoad(elf) ==
  LET Run(a) ==
        load_elf_and_init_memory([a.S EXCEPT !.pdm[a.p] = EmptyDir], create_mm(a.p), elf, "none")
  IN Run(frame_alloc(BootMachine))

LoadSegment(vaddr, memsz, filesz, offset) ==
  /\ ~probe.done
  /\ \E r \in {ProbeLoad(ProbeElf(vaddr, memsz, filesz, offset))} :
        probe' = [done |-> TRUE, elf |-> ProbeElf(vaddr, memsz, filesz, offset),
                  result |-> r.result, vmas |-> r.mm.vmas]
  /\ UNCHANGED << refcount, buddy_free, kernel_pd, pd_mem, pt_mem, frame_mem, temp_slot,
                  bad_puts, next_pid, g_next_kernel_stack_virt_base, tss_esp0, procs, last,
                  seq_only, events, boot, fat >>

LoaderNext ==
  \E vaddr \in {0, 4, PAGE_SIZE, KERNEL_VIRT_BASE - PAGE_SIZE, KERNEL_VIRT_BASE - 1,
                KERNEL_VIRT_BASE, ADDR_SPACE - PAGE_SIZE, UINTPTR_MAX},
     memsz \in {1, PAGE_SIZE, PAGE_SIZE + 1, KERNEL_VIRT_BASE - PAGE_SIZE, KERNEL_VIRT_BASE,
                ADDR_SPACE - PAGE_SIZE, UINTPTR_MAX},
     filesz \in {0, 1, PAGE_SIZE, PAGE_SIZE + 1, UINTPTR_MAX},
     offset \in {0, SIZEOF_EHDR + SIZEOF_PHDR, ElfMinimal.file_size - 1,
                 ElfMinimal.file_size, ElfMinimal.file_size + 1, UINTPTR_MAX} :
    LoadSegment(vaddr, memsz, filesz, offset)

LoaderSpec == Init /\ [][LoaderNext]_vars

\* ---------------------------------------------------------------- main
\* Memory maps of up to MaxEntries entries: below and at 1 MiB, above the
\* kernel image, not page aligned, and above 4 GiB; lengths from nothing to
\* more than the buddy allocator takes.
MaxEntries == 2

\* The boot loader enters main.
Enter(magic, has_mmap, entries, kernel_image_end_phys, late_failure) ==
  /\ boot.pc = "off"
  /\ boot' = [boot EXCEPT !.pc = "main", !.magic = magic, !.has_mmap = has_mmap,
                          !.entries = entries,
                          !.kernel_image_end_phys = kernel_image_end_phys,
                          !.late_failure = late_failure]
  /\ UNCHANGED << refcount, buddy_free, kernel_pd, pd_mem, pt_mem, frame_mem, temp_slot,
                  bad_puts, next_pid, g_next_kernel_stack_virt_base, tss_esp0, procs, last,
                  seq_only, events, probe, fat >>

\* main up to the memory management: the terminal, the magic test, the GDT
\* with the TSS, the IDT.
MainStart ==
  /\ boot.pc = "main"
  /\ boot' = IF boot.magic # MULTIBOOT2_BOOTLOADER_MAGIC
             THEN [boot EXCEPT !.pc = "halt_system", !.initialised = @ \cup {"terminal"}]
             ELSE [boot EXCEPT !.pc = "memory",
                               !.initialised = @ \cup {"terminal", "gdt", "idt"}]
  /\ UNCHANGED << refcount, buddy_free, kernel_pd, pd_mem, pt_mem, frame_mem, temp_slot,
                  bad_puts, next_pid, g_next_kernel_stack_virt_base, tss_esp0, procs, last,
                  seq_only, events, probe, fat >>

\* main going on to the later subsystems whatever init_memory_management
\* returned.
MainMemoryResultIgnored ==
  /\ boot.pc = "memory"
  /\ \E m \in {init_memory_management(boot.has_mmap, boot.entries,
                                      boot.kernel_image_end_phys, boot.late_failure)} :
        boot' = [boot EXCEPT !.pc = "subsystems",
                             !.memory_ok = m.ok, !.buddy = m.buddy,
                             !.initialised = IF m.ok THEN @ \cup {"memory"} ELSE @]
  /\ UNCHANGED << refcount, buddy_free, kernel_pd, pd_mem, pt_mem, frame_mem, temp_slot,
                  bad_puts, next_pid, g_next_kernel_stack_virt_base, tss_esp0, procs, last,
                  seq_only, events, probe, fat >>

\* main: init_memory_management, and the jump to halt_system when it fails.
MainMemory ==
  /\ boot.pc = "memory"
  /\ \E m \in {init_memory_management(boot.has_mmap, boot.entries,
                                      boot.kernel_image_end_phys, boot.late_failure)} :
        boot' = [boot EXCEPT !.pc = IF m.ok THEN "subsystems" ELSE "halt_system",
                             !.memory_ok = m.ok, !.buddy = m.buddy,
                             !.initialised = IF m.ok THEN @ \cup {"memory"} ELSE @]
  /\ UNCHANGED << refcount, buddy_free, kernel_pd, pd_mem, pt_mem, frame_mem, temp_slot,
                  bad_puts, next_pid, g_next_kernel_stack_virt_base, tss_esp0, procs, last,
                  seq_only, events, probe, fat >>

\* main: the PIT, the keyboard, the file system and the scheduler, then the
\* initial user process, then STI.
MainSubsystems ==
  /\ boot.pc = "subsystems"
  /\ boot' = [boot EXCEPT !.pc = "idle",
                          !.initialised = @ \cup {"pit", "keyboard", "fs", "scheduler"},
                          !.user_process_created = TRUE,
                          !.interrupts = TRUE]
  /\ UNCHANGED << refcount, buddy_free, kernel_pd, pd_mem, pt_mem, frame_mem, temp_slot,
                  bad_puts, next_pid, g_next_kernel_stack_virt_base, tss_esp0, procs, last,
                  seq_only, events, probe, fat >>

\* halt_system: cli; hlt, for ever.
HaltLoop ==
  /\ boot.pc \in {"halt_system", "halted"}
  /\ boot' = [boot EXCEPT !.pc = "halted", !.interrupts = FALSE]
  /\ UNCHANGED << refcount, buddy_free, kernel_pd, pd_mem, pt_mem, frame_mem, temp_slot,
                  bad_puts, next_pid, g_next_kernel_stack_virt_base, tss_esp0, procs, last,
                  seq_only, events, probe, fat >>

BootInputs ==
  LET BootEntries ==
        [addr : {512, 1024, 4096, 4098, PHYS_SPAN}, len : {0, 64, 1024, 2050, 8192},
         type : {MULTIBOOT_MEMORY_AVAILABLE}]
          \cup {[addr |-> 4096, len |-> 8192, type |-> 2]}
      BootMaps == UNION {[1..n -> BootEntries] : n \in 0..MaxEntries}
  IN
  ({MULTIBOOT2_BOOTLOADER_MAGIC} \X {TRUE} \X BootMaps \X {2048, 2050} \X {FALSE})
    \cup ({MULTIBOOT2_BOOTLOADER_MAGIC, 0} \X BOOLEAN \X {<< >>} \X {2048} \X BOOLEAN)
    \cup ({MULTIBOOT2_BOOTLOADER_MAGIC, 0} \X {TRUE}
            \X {<< [addr |-> 4096, len |-> 8192, type |-> MULTIBOOT_MEMORY_AVAILABLE] >>}
            \X {2048} \X BOOLEAN)

BootNext ==
  \/ \E i \in BootInputs : Enter(i[1], i[2], i[3], i[4], i[5])
  \/ MainStart
  \/ MainMemory
  \/ MainSubsystems
  \/ HaltLoop

BootSpec == Init /\ [][BootNext]_vars
\* main is the only thread of control and runs on: every step that is
\* enabled is eventually taken.
BootFairSpec == BootSpec /\ WF_vars(BootNext)

\* ------------------------------------------------------- FAT directory calls
\* The calls below run under fs->lock, one at a time, on the root directory
\* of the mounted volume.
Volume == [next |-> fat.next, data |-> fat.data]

NotFat ==
  << refcount, buddy_free, kernel_pd, pd_mem, pt_mem, frame_mem, temp_slot, bad_puts,
     next_pid, g_next_kernel_stack_virt_base, tss_esp0, procs, last, seq_only, events,
     probe, boot >>

FatMount(image) ==
  /\ fat.pc = "unmounted"
  /\ fat' = [fat EXCEPT !.pc = "mounted", !.next = image.next, !.data = image.data,
                        !.op = [Unmounted.op EXCEPT !.before = image]]
  /\ UNCHANGED NotFat

\* What the acquisitions and releases a call did leave of fs->lock, which
\* was held as many times as held before the call.
LockAfter(held, calls) ==
  held + Cardinality({i \in 1..Len(calls) : calls[i] = "acquire"})
       - Cardinality({i \in 1..Len(calls) : calls[i] = "release"})

FatFind(component) ==
  /\ fat.pc = "mounted"
  /\ ~fat.fctx.open
  /\ \E f \in {fat_find_in_dir(Volume, fat.root_cluster, component)} :
       fat' = [fat EXCEPT !.op = [Unmounted.op EXCEPT
                                    !.name = "fat_find_in_dir", !.arg = component,
                                    !.ret = f.ret, !.entry = f.entry,
                                    !.entry_offset = f.entry_offset,
                                    !.first_lfn_offset = f.first_lfn_offset,
                                    !.before = Volume]]
  /\ UNCHANGED NotFat

FatLookup(path) ==
  /\ fat.pc = "mounted"
  /\ ~fat.fctx.open
  /\ \E f \in {fat_lookup_path(Volume, fat.root_cluster, path)} :
       fat' = [fat EXCEPT !.op = [Unmounted.op EXCEPT
                                    !.name = "fat_lookup_path", !.path = path,
                                    !.ret = f.ret, !.entry = f.entry,
                                    !.entry_offset = f.entry_offset_in_dir,
                                    !.slot_cluster = f.entry_dir_cluster,
                                    !.before = Volume]]
  /\ UNCHANGED NotFat

\* FatUnlink with the `goto unlink_fail_locked` of a target that is not found
\* replaced by `return ret`.
FatUnlinkReturningLocked(path, fault) ==
  /\ fat.pc = "mounted"
  /\ ~fat.fctx.open
  /\ \E u \in {fat_unlink_internal(Volume, fat.root_cluster, path, fault)} :
     \E calls \in {IF u.ret = "NOT_FOUND" THEN << "acquire" >> ELSE u.lock} :
       /\ calls # << >> => fat.lock = 0
       /\ fat' = [fat EXCEPT !.next = u.F.next, !.data = u.F.data,
                             !.lock = LockAfter(@, calls),
                             !.op = [Unmounted.op EXCEPT
                                       !.name = "fat_unlink_internal", !.path = path,
                                       !.fault = fault,
                                       !.arg = ComponentName(
                                                 fs_util_split_path(path, FALSE).component_name),
                                       !.ret = u.ret, !.lock = calls, !.before = Volume]]
  /\ UNCHANGED NotFat

\* A call that takes fs->lock returns only if the lock is free.
FatUnlink(path, fault) ==
  /\ fat.pc = "mounted"
  /\ ~fat.fctx.open
  /\ \E u \in {fat_unlink_internal(Volume, fat.root_cluster, path, fault)} :
       /\ u.lock # << >> => fat.lock = 0
       /\ fat' = [fat EXCEPT !.next = u.F.next, !.data = u.F.data,
                             !.lock = LockAfter(@, u.lock),
                             !.op = [Unmounted.op EXCEPT
                                       !.name = "fat_unlink_internal", !.path = path,
                                       !.fault = fault,
                                       !.arg = ComponentName(
                                                 fs_util_split_path(path, FALSE).component_name),
                                       !.ret = u.ret, !.lock = u.lock, !.before = Volume]]
  /\ UNCHANGED NotFat

FatFindFreeSlot(needed_slots) ==
  /\ fat.pc = "mounted"
  /\ ~fat.fctx.open
  /\ \E r \in {find_free_directory_slot(Volume, fat.root_cluster, needed_slots)} :
       fat' = [fat EXCEPT !.next = r.F.next, !.data = r.F.data,
                          !.op = [Unmounted.op EXCEPT
                                    !.name = "find_free_directory_slot",
                                    !.arg = needed_slots, !.ret = r.ret,
                                    !.slot_cluster = r.slot_cluster,
                                    !.slot_offset = r.slot_offset,
                                    !.extended = r.extended, !.before = Volume]]
  /\ UNCHANGED NotFat

\* One file is opened in a run, and the directory is not changed after.
FatOpen(path, flags, fault) ==
  /\ fat.pc = "mounted"
  /\ ~fat.fctx.open
  /\ \E o \in {fat_open_internal(Volume, fat.root_cluster, path, flags, fault)} :
       /\ o.lock # << >> => fat.lock = 0
       /\ fat' = [fat EXCEPT !.fctx = o.vnode, !.listing = << >>, !.in_order = TRUE,
                             !.lock = LockAfter(@, o.lock),
                             !.op = [Unmounted.op EXCEPT
                                       !.name = "fat_open_internal", !.path = path,
                                       !.fault = fault, !.ret = o.ret_err,
                                       !.lock = o.lock, !.before = Volume]]
  /\ UNCHANGED NotFat

FatReaddir(entry_index, fault) ==
  /\ fat.pc = "mounted"
  /\ fat.fctx.open
  /\ \E r \in {fat_readdir_internal(Volume, fat.fctx, entry_index, fault)} :
     \E still_in_order \in
          {/\ fat.in_order
           /\ fault = "none"
           /\ entry_index = Len(fat.listing)
           /\ fat.op.name = "fat_readdir_internal" => fat.op.ret = "SUCCESS"} :
       /\ r.lock # << >> => fat.lock = 0
       /\ fat' = [fat EXCEPT !.fctx = r.fctx,
                             !.in_order = still_in_order,
                             !.listing = IF ~still_in_order THEN << >>
                                         ELSE IF r.ret = "SUCCESS" THEN Append(@, r.entry.id)
                                         ELSE @,
                             !.lock = LockAfter(@, r.lock),
                             !.op = [Unmounted.op EXCEPT
                                       !.name = "fat_readdir_internal",
                                       !.arg = entry_index, !.fault = fault,
                                       !.ret = r.ret, !.entry = r.entry,
                                       !.lock = r.lock, !.before = Volume]]
  /\ UNCHANGED NotFat

\* The calls. On a volume as it was mounted: a lookup, an unlink or an open of
\* every path of one or two components made of the file names, "." and "..",
\* of the empty path and of "/", a collaborator failing only in calls on files
\* of the root directory; the file opened is then read as a directory. On a
\* volume that calls have changed: the calls on files of the root directory.
FatNext ==
  LET Components == {<< c >> : c \in 1..MaxFiles} \cup {<< DOT >>, << DOT, DOT >>}
      Paths == {<< >>, << SLASH >>}
                 \cup {<< SLASH >> \o c : c \in Components}
                 \cup {<< SLASH >> \o c \o << SLASH >> \o d :
                         c \in Components, d \in {<< 1 >>, << 2 >>, << DOT >>}}
      RootFiles == {<< SLASH, c >> : c \in 1..MaxFiles}
      AsMounted == fat.op.name = "none"
  IN
  \/ \E image \in FatImages : FatMount(image)
  \/ \E component \in 1..MaxFiles : FatFind(component)
  \/ AsMounted /\ \E path \in Paths : FatLookup(path)
  \/ \E path \in RootFiles : FatUnlink(path, "none")
  \/ AsMounted /\ \E path \in Paths \ RootFiles : FatUnlink(path, "none")
  \/ AsMounted /\ \E path \in RootFiles, fault \in {"null", "split", "free"} :
       FatUnlink(path, fault)
  \/ \E needed_slots \in 1..2 : FatFindFreeSlot(needed_slots)
  \/ AsMounted /\ \E path \in Paths, flags \in {{}, {"O_CREAT"}, {"O_TRUNC"}, {"O_WRONLY"}} :
       FatOpen(path, flags, "none")
  \/ AsMounted /\ \E path \in RootFiles, fault \in {"null", "create", "truncate", "kmalloc"} :
       FatOpen(path, {"O_CREAT", "O_TRUNC"}, fault)
  \/ \E entry_index \in 0..(MaxFiles + 1) : FatReaddir(entry_index, "none")
  \/ \E fault \in {"null", "kmalloc", "read"} : FatReaddir(Len(fat.listing), fault)

FatSpec == Init /\ [][FatNext]_vars

\* -------------------------------------------------------------- properties
\* The PCB that the last call returned.
LastCreated == CHOOSE p \in procs : p.pid = last.ret
CreateSucceeded == last.op = "create" /\ last.ret # 0
CreateFailed == last.op = "create" /\ last.ret = 0

\* The page tables a directory refers to, the recursive entry aside.
TablesOf(dir) ==
  {dir[i].pfn : i \in {j \in 0..(RECURSIVE_PDE_INDEX - 1) : Present(dir[j])}} \cap Frames
LiveDirs == {kernel_pd} \cup {pd_mem[p.page_directory_phys] : p \in procs}
LiveTables == UNION {TablesOf(d) : d \in LiveDirs}
\* The page-table entries that map frame p, in any live directory.
PtesMapping(p) ==
  {te \in LiveTables \X (0..(PAGES_PER_TABLE - 1)) :
     Present(pt_mem[te[1]][te[2]]) /\ pt_mem[te[1]][te[2]].pfn = p}
\* The holders of p that are not page-table entries: the processes whose
\* directory p is, and the directory entries that use p as a page table.
ExplicitHolders(p) ==
  Cardinality({q \in procs : q.page_directory_phys = p})
  + (IF p \in LiveTables THEN 1 ELSE 0)

\* The byte at a kernel virtual address, and the 32-bit word stored there.
KernelByte(v) ==
  frame_mem[paging_get_physical_address(Machine, KERNEL_PD, v).p][PAGE_OFFSET(v)]
KernelWordIs(v, val) ==
  /\ KernelByte(v) = val
  /\ \A k \in 1..3 : KernelByte(v + k) = WCONT
\* The byte a process sees at a user virtual address.
UserByte(p, v) ==
  frame_mem[paging_get_physical_address(Machine, p.page_directory_phys, v).p][PAGE_OFFSET(v)]

\* C1: after any number of rounds of a successful create_user_process
\* followed by destroy_process, the allocator's free space is what it was
\* before the first create.
C1_CyclesRestoreFreeSpace ==
  (seq_only /\ procs = {}) => buddy_free_space(Machine) = buddy_free_space(BootMachine)

\* C2: every reference count is at least 0 and no put_frame or unmap
\* decrement is ever applied to a frame whose count is already 0.
C2_NoReleaseAtZero ==
  /\ \A f \in Frames : refcount[f] >= 0
  /\ bad_puts = 0

\* C3: after every completed call, the count of each frame is the number of
\* page-table entries that map it plus the number of its explicit holders,
\* and a frame with count 0 is mapped nowhere.
C3_CountEqualsMappingsPlusHolders ==
  \A p \in Frames :
    /\ refcount[p] = Cardinality(PtesMapping(p)) + ExplicitHolders(p)
    /\ (refcount[p] = 0 => PtesMapping(p) = {})

\* C4: when create_user_process returns NULL the free space is what it was
\* at entry: no frame allocated during the call is still allocated.
C4_FailedCreateRestoresFreeSpace ==
  CreateFailed => buddy_free_space(Machine) = last.free_before

\* C5: after a successful create the saved kernel ESP is 20 below the top of
\* the kernel stack, the five words from it upward are EIP, CS|3, EFLAGS
\* 0x202, the user stack top and SS|3, and no other byte of the kernel stack
\* has been written.
C5_IretFrame ==
  CreateSucceeded =>
    /\ LastCreated.kernel_esp_for_switch = LastCreated.kernel_stack_vaddr_top - 20
    /\ LastCreated.entry_point = Elfs[last.elf].e_entry
    /\ LastCreated.user_stack_top = USER_STACK_TOP_VIRT_ADDR
    /\ KernelWordIs(LastCreated.kernel_esp_for_switch, LastCreated.entry_point)
    /\ KernelWordIs(LastCreated.kernel_esp_for_switch + 4, GDT_USER_CODE_SELECTOR + 3)
    /\ KernelWordIs(LastCreated.kernel_esp_for_switch + 8, 514)
    /\ KernelWordIs(LastCreated.kernel_esp_for_switch + 12, LastCreated.user_stack_top)
    /\ KernelWordIs(LastCreated.kernel_esp_for_switch + 16, GDT_USER_DATA_SELECTOR + 3)
    /\ \A v \in (LastCreated.kernel_stack_vaddr_top - PROCESS_KSTACK_SIZE)
                 ..(LastCreated.kernel_esp_for_switch - 1) : KernelByte(v) = STALE

\* A process was created from the file whose entry point is not page
\* aligned, and its frame is on its kernel stack.
C5_Witness ==
  /\ CreateSucceeded
  /\ Elfs[last.elf].e_entry = PAGE_SIZE + 4
  /\ KernelWordIs(LastCreated.kernel_stack_vaddr_top - 20, PAGE_SIZE + 4)

\* C6: in a process created from a file, every byte of the file part of a
\* loadable segment is the file's byte and every byte of the rest of the
\* segment is zero, whether or not the segment starts on a page boundary.
C6_SegmentBytes ==
  CreateSucceeded =>
    \A i \in 1..Len(Elfs[last.elf].phdrs) :
      \A a \in 0..(Elfs[last.elf].phdrs[i].p_memsz - 1) :
        UserByte(LastCreated, Elfs[last.elf].phdrs[i].p_vaddr + a)
          = IF a < Elfs[last.elf].phdrs[i].p_filesz
            THEN FileByte(Elfs[last.elf], Elfs[last.elf].phdrs[i].p_offset + a)
            ELSE 0

\* C7: the kernel-space entries of every live process's directory equal the
\* kernel directory's.
C7_KernelEntriesShared ==
  \A p \in procs : \A i \in KERNEL_PDE_INDEX..(RECURSIVE_PDE_INDEX - 1) :
    pd_mem[p.page_directory_phys][i] = kernel_pd[i]

\* C8, as stated: the last entry of every process directory is the
\* directory's own frame with the present and read/write bits and no other.
C8_RecursiveEntryPlain ==
  \A p \in procs :
    pd_mem[p.page_directory_phys][RECURSIVE_PDE_INDEX]
      = [pfn |-> p.page_directory_phys, flags |-> {PAGE_PRESENT, PAGE_RW}]

\* C8: the last entry of every process directory is the directory's own
\* frame with the present and read/write bits and the software NX bit
\* (bit 9), and no other.
C8_RecursiveEntryNx ==
  \A p \in procs :
    /\ pd_mem[p.page_directory_phys][RECURSIVE_PDE_INDEX].pfn = p.page_directory_phys
    /\ pd_mem[p.page_directory_phys][RECURSIVE_PDE_INDEX].flags
         = {PAGE_PRESENT, PAGE_RW, PAGE_NX_BIT}

\* Two processes are live, each with its own frame in its last entry.
C8_Witness ==
  /\ Cardinality(procs) >= 2
  /\ \E p \in procs :
       /\ PAGE_NX_BIT \in pd_mem[p.page_directory_phys][RECURSIVE_PDE_INDEX].flags
       /\ pd_mem[p.page_directory_phys][RECURSIVE_PDE_INDEX].pfn = p.page_directory_phys

\* C9: create_user_process returns NULL for every file whose entry point is
\* at or above KERNEL_VIRT_BASE.
C9_KernelEntryRejected ==
  (last.op = "create" /\ Elfs[last.elf].e_entry >= KERNEL_VIRT_BASE) => last.ret = 0

\* The header faults the validation is to reject.
HeaderFault(elf) ==
  \/ elf.file_size < SIZEOF_EHDR
  \/ elf.e_ident_mag # ELFMAG
  \/ elf.ei_class # ELFCLASS32
  \/ elf.ei_data # ELFDATA2LSB
  \/ elf.e_type # ET_EXEC
  \/ elf.e_machine # EM_386
  \/ elf.e_version # EV_CURRENT
  \/ elf.e_phentsize # SIZEOF_PHDR
  \/ elf.e_phoff + (elf.e_phnum * elf.e_phentsize) > elf.file_size
  \/ elf.e_entry = 0

\* C10: for a file shorter than an ELF header or with a header fault,
\* load_elf_and_init_memory fails having inserted no VMA and allocated no
\* frame.
C10_BadHeaderLoadsNothing ==
  (last.op = "create" /\ last.load.called /\ HeaderFault(Elfs[last.elf])) =>
    /\ last.load.result # 0
    /\ last.load.vmas = 0
    /\ last.load.frames = 0

\* The loader was called, with no collaborator failing, on a file whose
\* entry point is 0, and it failed.
C10_Witness ==
  /\ last.op = "create"
  /\ last.fault = "none"
  /\ last.load.called
  /\ Elfs[last.elf].e_entry = 0
  /\ last.load.result # 0
  /\ last.ret = 0


\* C11: a loadable segment with p_memsz > 0 is accepted only if p_vaddr +
\* p_memsz does not wrap and is at most KERNEL_VIRT_BASE, p_filesz <= p_memsz
\* and p_offset + p_filesz <= file_size; every VMA the loader creates has
\* start < end <= KERNEL_VIRT_BASE.
C11_SegmentGeometry ==
  (probe.done /\ probe.result = 0) =>
    /\ probe.elf.phdrs[1].p_vaddr + probe.elf.phdrs[1].p_memsz < ADDR_SPACE
    /\ probe.elf.phdrs[1].p_vaddr + probe.elf.phdrs[1].p_memsz <= KERNEL_VIRT_BASE
    /\ probe.elf.phdrs[1].p_filesz <= probe.elf.phdrs[1].p_memsz
    /\ probe.elf.phdrs[1].p_offset + probe.elf.phdrs[1].p_filesz <= probe.elf.file_size
    /\ \A i \in 1..Len(probe.vmas) :
         /\ probe.vmas[i].vm_start < probe.vmas[i].vm_end
         /\ probe.vmas[i].vm_end <= KERNEL_VIRT_BASE

\* A segment that ends exactly at KERNEL_VIRT_BASE, its file part exactly at
\* the end of the file, was loaded.
C11_Witness ==
  /\ probe.done
  /\ probe.result = 0
  /\ Len(probe.vmas) = 1
  /\ probe.elf.phdrs[1].p_vaddr + probe.elf.phdrs[1].p_memsz = KERNEL_VIRT_BASE
  /\ probe.elf.phdrs[1].p_offset + probe.elf.phdrs[1].p_filesz = probe.elf.file_size
  /\ probe.elf.phdrs[1].p_filesz > 0

\* The program headers the loader is to load, and the pages of a span.
Loadable(elf) ==
  {i \in 1..Len(elf.phdrs) : elf.phdrs[i].p_type = PT_LOAD /\ elf.phdrs[i].p_memsz > 0}
PagesOf(start, end) == {v \in start..(end - 1) : v % PAGE_SIZE = 0}
UserPte(p, v) ==
  pt_mem[pd_mem[p.page_directory_phys][PDE_INDEX(v)].pfn][PTE_INDEX(v)]
\* The VMAs of the list with the span of program header ph.
VmasOfHeader(vmas, ph) ==
  {k \in 1..Len(vmas) :
     /\ vmas[k].vm_start = PAGE_ALIGN_DOWN(ph.p_vaddr)
     /\ vmas[k].vm_end = PAGE_ALIGN_UP(ph.p_vaddr + ph.p_memsz)}
VmaFlagsFollow(vma, ph) ==
  /\ {VM_USER, VM_ANONYMOUS} \subseteq vma.vm_flags
  /\ vma.vm_flags \subseteq {VM_USER, VM_ANONYMOUS, VM_READ, VM_WRITE, VM_EXEC}
  /\ (VM_READ \in vma.vm_flags) <=> (PF_R \in ph.p_flags)
  /\ (VM_WRITE \in vma.vm_flags) <=> (PF_W \in ph.p_flags)
  /\ (VM_EXEC \in vma.vm_flags) <=> (PF_X \in ph.p_flags)
ProtFollows(prot, ph) ==
  /\ {PAGE_PRESENT, PAGE_USER} \subseteq prot
  /\ prot \subseteq {PAGE_PRESENT, PAGE_USER, PAGE_RW, PAGE_NX_BIT}
  /\ (PAGE_RW \in prot) <=> (PF_W \in ph.p_flags)
  /\ (PAGE_NX_BIT \in prot) <=> (PF_X \notin ph.p_flags /\ g_nx_supported)
\* Page v of process p is mapped with protection prot to a frame that is
\* allocated and mapped by no other page-table entry.
PageHasOwnFrame(p, v, prot) ==
  /\ paging_get_physical_address(Machine, p.page_directory_phys, v).ok
  /\ UserPte(p, v).flags = prot
  /\ UserPte(p, v).pfn \in Frames \ buddy_free
  /\ refcount[UserPte(p, v).pfn] = 1
  /\ Cardinality(PtesMapping(UserPte(p, v).pfn)) = 1

PageBoundaryAbove(x) ==
  CHOOSE b \in 0..ADDR_SPACE : b % PAGE_SIZE = 0 /\ b >= x /\ b - x < PAGE_SIZE
HighestSegmentEnd(elf) ==
  CHOOSE e \in {elf.phdrs[i].p_vaddr + elf.phdrs[i].p_memsz : i \in Loadable(elf)} :
    \A i \in Loadable(elf) : elf.phdrs[i].p_vaddr + elf.phdrs[i].p_memsz <= e

\* C13: after a successful load the entry point is e_entry and the initial
\* break is the page boundary at or above the highest end of a loadable
\* segment; create_user_process sets start_brk and end_brk to it.
C13_EntryAndBrk ==
  (CreateSucceeded /\ Loadable(Elfs[last.elf]) # {}) =>
    /\ LastCreated.entry_point = Elfs[last.elf].e_entry
    /\ LastCreated.mm.start_brk = PageBoundaryAbove(HighestSegmentEnd(Elfs[last.elf]))
    /\ LastCreated.mm.end_brk = LastCreated.mm.start_brk

\* A process was created from a file whose first program header has the
\* highest end, which is not a page boundary.
C13_Witness ==
  /\ CreateSucceeded
  /\ Len(Elfs[last.elf].phdrs) = 2
  /\ Elfs[last.elf].phdrs[1].p_vaddr > Elfs[last.elf].phdrs[2].p_vaddr
  /\ HighestSegmentEnd(Elfs[last.elf]) % PAGE_SIZE # 0
  /\ LastCreated.mm.start_brk = PT_SPAN + (2 * PAGE_SIZE)

StackVmas(vmas) ==
  {k \in 1..Len(vmas) :
     vmas[k].vm_start < USER_STACK_TOP_VIRT_ADDR /\ vmas[k].vm_end > USER_STACK_BOTTOM_VIRT}
\* The pages of the user-stack region that are mapped for process p.
StackPagesMapped(p) ==
  {v \in PagesOf(USER_STACK_BOTTOM_VIRT, USER_STACK_TOP_VIRT_ADDR) :
     paging_get_physical_address(Machine, p.page_directory_phys, v).ok}

\* C15: after a successful create the process has one VMA over the stack
\* region, exactly [USER_STACK_BOTTOM_VIRT, USER_STACK_TOP_VIRT_ADDR), flagged
\* READ, WRITE, USER, GROWS_DOWN and ANONYMOUS; of its pages exactly the top
\* one is mapped, to a frame of its own with the user data protection, and
\* user_stack_top is USER_STACK_TOP_VIRT_ADDR.
C15_UserStack ==
  CreateSucceeded =>
    /\ Cardinality(StackVmas(LastCreated.mm.vmas)) = 1
    /\ \A k \in StackVmas(LastCreated.mm.vmas) :
         /\ LastCreated.mm.vmas[k].vm_start = USER_STACK_BOTTOM_VIRT
         /\ LastCreated.mm.vmas[k].vm_end = USER_STACK_TOP_VIRT_ADDR
         /\ LastCreated.mm.vmas[k].vm_flags =
              {VM_READ, VM_WRITE, VM_USER, VM_GROWS_DOWN, VM_ANONYMOUS}
         /\ LastCreated.mm.vmas[k].page_prot = PTE_USER_DATA_FLAGS
    /\ StackPagesMapped(LastCreated) = {USER_STACK_TOP_VIRT_ADDR - PAGE_SIZE}
    /\ PageHasOwnFrame(LastCreated, USER_STACK_TOP_VIRT_ADDR - PAGE_SIZE, PTE_USER_DATA_FLAGS)
    /\ LastCreated.user_stack_top = USER_STACK_TOP_VIRT_ADDR

\* A create succeeded while another process was alive: the new process has
\* its stack VMA and its top stack page, in a frame that the other process
\* does not map.
C15_Witness ==
  /\ CreateSucceeded
  /\ Cardinality(procs) >= 2
  /\ StackVmas(LastCreated.mm.vmas) # {}
  /\ StackPagesMapped(LastCreated) = {USER_STACK_TOP_VIRT_ADDR - PAGE_SIZE}
  /\ \A q \in procs \ {LastCreated} :
       UserPte(q, USER_STACK_TOP_VIRT_ADDR - PAGE_SIZE).pfn
         # UserPte(LastCreated, USER_STACK_TOP_VIRT_ADDR - PAGE_SIZE).pfn

\* The positions in the record of the last operation of the calls named name.
EventsNamed(name) == {k \in 1..Len(events) : events[k][1] = name}

\* C16: a successful create calls tss_set_kernel_stack exactly once, with
\* the top of the new kernel stack, after every page of that stack was
\* mapped and before the ELF file is loaded; a create that fails at or
\* before the kernel-stack allocation does not call it and leaves esp0.
C16_TssPublishedOnce ==
  /\ CreateSucceeded =>
       /\ Cardinality(EventsNamed("tss_set_kernel_stack")) = 1
       /\ tss_esp0 = LastCreated.kernel_stack_vaddr_top
       /\ \A t \in EventsNamed("tss_set_kernel_stack") :
            /\ events[t][2] = LastCreated.kernel_stack_vaddr_top
            /\ \A v \in PagesOf(LastCreated.kernel_stack_vaddr_top - PROCESS_KSTACK_SIZE,
                                 LastCreated.kernel_stack_vaddr_top) :
                 \E m \in EventsNamed("map_kstack_page") : m < t /\ events[m][2] = v
            /\ \A m \in EventsNamed("map_kstack_page") : m < t
            /\ EventsNamed("load_elf_and_init_memory") # {}
            /\ \A l \in EventsNamed("load_elf_and_init_memory") : t < l
  /\ (CreateFailed /\ last.status \in {-1, -2, -3}) =>
       /\ EventsNamed("tss_set_kernel_stack") = {}
       /\ tss_esp0 = last.tss_before

\* A second process was created: esp0 moved from the first stack's top to
\* the second's, by the one call of that create.
C16_Witness ==
  /\ CreateSucceeded
  /\ last.tss_before # 0
  /\ tss_esp0 # last.tss_before
  /\ tss_esp0 = LastCreated.kernel_stack_vaddr_top
  /\ Cardinality(EventsNamed("tss_set_kernel_stack")) = 1
  /\ Cardinality(EventsNamed("map_kstack_page")) = KSTACK_PAGES

\* A create failed in the kernel-stack allocation after an earlier create
\* had published its stack.
C16_FailedAllocation ==
  CreateFailed /\ last.status = -3 /\ last.tss_before # 0

\* The calls of the last operation from the first call of destroy_process on.
TeardownStart ==
  SetMin({k \in 1..Len(events) :
            events[k][1] \in {"destroy_mm", "put_frame_kstack", "paging_unmap_range_kstack",
                              "put_frame_pd", "kfree_pcb"}})
TeardownRank(name) ==
  CASE name = "destroy_mm" -> 1
    [] name = "destroy_mm_done" -> 2
    [] name = "put_frame_kstack" -> 3
    [] name = "paging_unmap_range_kstack" -> 4
    [] name = "put_frame_pd" -> 5
    [] name = "kfree_pcb" -> 6
    [] OTHER -> 0

\* C17: destroy_process, called by the kernel or by the failure path of a
\* create, releases in this order: destroy_mm, put_frame of the kernel-stack
\* frames, the unmapping of the kernel-stack range, put_frame of the
\* directory frame, kfree of the PCB.  Each step runs at most once and no
\* frame of the stack is put twice by the loop; the directory frame is put
\* after destroy_mm has returned; freeing the PCB is the last thing done
\* and the PCB freed is no longer among the live ones.
C17_TeardownOrder ==
  EventsNamed("kfree_pcb") # {} =>
    /\ \A name \in {"destroy_mm", "destroy_mm_done", "paging_unmap_range_kstack",
                     "put_frame_pd", "kfree_pcb"} :
         Cardinality(EventsNamed(name)) <= 1
    /\ \A j, k \in EventsNamed("put_frame_kstack") : j # k => events[j][2] # events[k][2]
    /\ \A j, k \in TeardownStart..Len(events) :
         (j < k /\ TeardownRank(events[j][1]) > 0 /\ TeardownRank(events[k][1]) > 0)
           => TeardownRank(events[j][1]) <= TeardownRank(events[k][1])
    /\ \A d \in EventsNamed("put_frame_pd") :
         /\ \A m \in EventsNamed("destroy_mm") : \E e \in EventsNamed("destroy_mm_done") : e < d
         /\ \A k \in EventsNamed("put_frame_kstack") \cup EventsNamed("paging_unmap_range_kstack") :
              k < d
    /\ EventsNamed("kfree_pcb") = {Len(events)}
    /\ events[Len(events)][2] \notin {p.pid : p \in procs}
    /\ last.op = "destroy" =>
         /\ events[Len(events)][2] = last.ret
         /\ Cardinality(EventsNamed("destroy_mm")) = 1
         /\ Cardinality(EventsNamed("put_frame_kstack")) = KSTACK_PAGES
         /\ Cardinality(EventsNamed("paging_unmap_range_kstack")) = 1
         /\ Cardinality(EventsNamed("put_frame_pd")) = 1

\* A process was destroyed while another one stayed alive: all five steps
\* ran, in order.
C17_Witness ==
  /\ last.op = "destroy"
  /\ procs # {}
  /\ EventsNamed("destroy_mm_done") # {}
  /\ Cardinality(EventsNamed("put_frame_kstack")) = KSTACK_PAGES
  /\ EventsNamed("paging_unmap_range_kstack") # {}
  /\ EventsNamed("put_frame_pd") # {}
  /\ EventsNamed("kfree_pcb") = {Len(events)}

\* C18: the pid counter starts at 1; a create that allocates a PCB takes the
\* counter's value as the pid and advances the counter by one, whether the
\* create then succeeds or fails; a create that cannot allocate the PCB and
\* a destroy leave the counter; so a PCB that is returned has a pid larger
\* than that of every PCB returned before it.
C18_PidCounter ==
  /\ next_pid = 1
  /\ [][ /\ Cardinality(procs' \ procs) <= 1
         /\ \A p \in procs' \ procs :
              /\ p.pid = next_pid
              /\ \A q \in procs : q.pid < p.pid
         /\ next_pid' = IF last'.op = "create" /\ last'.fault # "kmalloc_pcb"
                        THEN next_pid + 1 ELSE next_pid ]_vars

\* Two PCBs are alive whose pids are not consecutive: a create between
\* theirs allocated a PCB, took a pid and failed.
C18_Witness ==
  \E p, q \in procs : q.pid > p.pid + 1

\* The pages of the kernel-stack range that starts at base that the kernel
\* directory of machine S maps.
KstackPagesMapped(S, base) ==
  {v \in PagesOf(base, base + PROCESS_KSTACK_SIZE) :
     paging_get_physical_address(S, KERNEL_PD, v).ok}

C20_TempSlotDiscipline ==
  /\ temp_slot = 0
  /\ \A k \in EventsNamed("paging_temp_map") :
       /\ events[k][2] = 0
       /\ k < Len(events)
       /\ events[k + 1][1] = "paging_temp_unmap"
       /\ events[k + 1][2] # 0
  /\ \A k \in EventsNamed("paging_temp_unmap") :
       k > 1 /\ events[k - 1][1] = "paging_temp_map"

\* A create of the file with two segments in two page tables succeeded:
\* the slot was taken and given back for the directory, for each page
\* copied and for each page table zeroed.
C20_Witness ==
  /\ CreateSucceeded
  /\ Len(Elfs[last.elf].phdrs) = 2
  /\ Cardinality(EventsNamed("paging_temp_map")) >= 6
  /\ Cardinality(EventsNamed("paging_temp_unmap")) = Cardinality(EventsNamed("paging_temp_map"))
  /\ temp_slot = 0

\* ------------------------------------------------------------ boot memory
\* The memory management of main has run on the inputs of this boot.
MemoryManagementRan ==
  boot.pc \in {"subsystems", "idle", "halt_system", "halted"}
    /\ boot.magic = MULTIBOOT2_BOOTLOADER_MAGIC /\ boot.has_mmap
\* The entries the selection considers and what is left of each above the
\* end of the kernel image.
ConsideredEntries ==
  {i \in 1..Len(boot.entries) :
     boot.entries[i].type = MULTIBOOT_MEMORY_AVAILABLE /\ boot.entries[i].addr >= LOW_MEMORY_LIMIT}
TrimmedLength(i) ==
  IF boot.entries[i].addr + boot.entries[i].len <= boot.kernel_image_end_phys THEN 0
  ELSE IF boot.entries[i].addr >= boot.kernel_image_end_phys THEN boot.entries[i].len
  ELSE boot.entries[i].len - (boot.kernel_image_end_phys - boot.entries[i].addr)
LargestEntries ==
  {i \in ConsideredEntries : \A j \in ConsideredEntries : TrimmedLength(j) <= TrimmedLength(i)}

\* C21: find_largest_memory_area fails exactly when no AVAILABLE entry at
\* or above 1 MiB has anything left above the end of the kernel image;
\* otherwise it returns the first entry with the largest trimmed length,
\* with base max(addr, kernel_image_end_phys) and that length as the size.
C21_LargestRegion ==
  MemoryManagementRan =>
    \A r \in {find_largest_memory_area(boot.entries, boot.kernel_image_end_phys)} :
      /\ r.ok <=> \E i \in ConsideredEntries : TrimmedLength(i) > 0
      /\ r.ok =>
           /\ r.base = MAX(boot.entries[SetMin(LargestEntries)].addr, boot.kernel_image_end_phys)
           /\ r.size = TrimmedLength(SetMin(LargestEntries))

\* The same for memory maps that lie below 4 GiB.
C21_Below4GiB ==
  (\A i \in 1..Len(boot.entries) : boot.entries[i].addr + boot.entries[i].len < PHYS_SPAN)
    => C21_LargestRegion

\* The memory map of the specification's example: (0x100000, 0x10000) and
\* (0x400000, 0x800000) with the kernel image ending at 0x200000 gives
\* base 0x400000 and size 0x800000.
C21_Example ==
  /\ MemoryManagementRan
  /\ boot.kernel_image_end_phys = 2048
  /\ boot.entries = << [addr |-> 1024, len |-> 64, type |-> MULTIBOOT_MEMORY_AVAILABLE],
                       [addr |-> 4096, len |-> 8192, type |-> MULTIBOOT_MEMORY_AVAILABLE] >>
  /\ find_largest_memory_area(boot.entries, boot.kernel_image_end_phys)
       = [ok |-> TRUE, base |-> 4096, size |-> 8192]

\* C22: every region handed to buddy_init has a page-aligned base and a
\* size of at least 1 MiB and at most 2^MAX_ORDER bytes: a region that is
\* smaller than 1 MiB once its base is aligned upward and its size is
\* clamped makes init_memory_management fail before buddy_init.
C22_BuddyRegion ==
  boot.buddy.called =>
    /\ boot.buddy.base % BOOT_PAGE_SIZE = 0
    /\ boot.buddy.size >= MIN_HEAP_SIZE
    /\ boot.buddy.size <= MAX_ORDER_SIZE

\* What the code does ensure: an aligned base and a size that is positive
\* and at most 2^MAX_ORDER bytes.
C22_BuddyRegionAlignedAndClamped ==
  boot.buddy.called =>
    /\ boot.buddy.base % BOOT_PAGE_SIZE = 0
    /\ boot.buddy.size > 0
    /\ boot.buddy.size > MIN_HEAP_SIZE - BOOT_PAGE_SIZE
    /\ boot.buddy.size <= MAX_ORDER_SIZE

\* -------------------------------------------------------------------- main
\* This boot cannot succeed: the magic is wrong or the memory management
\* fails on the multiboot information.
BootMustFail ==
  /\ boot.pc # "off"
  /\ \/ boot.magic # MULTIBOOT2_BOOTLOADER_MAGIC
     \/ ~init_memory_management(boot.has_mmap, boot.entries, boot.kernel_image_end_phys,
                                boot.late_failure).ok
Halting == boot.pc \in {"halt_system", "halted"}

\* C23: a boot with a wrong magic value or with a failing memory management
\* reaches the halt loop; there interrupts are disabled, none of the later
\* subsystems (PIT, keyboard, file system, scheduler) was or will be
\* initialised, create_user_process was not and will not be called, STI was
\* not and will not be executed, and the loop is never left.
C23_FailedBootHalts ==
  /\ [](BootMustFail =>
          /\ boot.initialised \subseteq {"terminal", "gdt", "idt"}
          /\ ~boot.user_process_created
          /\ ~boot.interrupts
          /\ boot.pc \in {"main", "memory", "halt_system", "halted"})
  /\ [](Halting => BootMustFail)
  /\ [][Halting => (boot'.pc = "halted" /\ ~boot'.interrupts
                     /\ boot'.initialised = boot.initialised
                     /\ boot'.user_process_created = boot.user_process_created)]_vars
  /\ (BootMustFail ~> boot.pc = "halted")

\* The magic was right, the memory map was there and held no usable region:
\* the kernel is in the halt loop with the GDT and the IDT set up and
\* nothing after them.
C23_Witness ==
  /\ boot.pc = "halted"
  /\ boot.magic = MULTIBOOT2_BOOTLOADER_MAGIC
  /\ boot.has_mmap
  /\ boot.entries # << >>
  /\ boot.initialised = {"terminal", "gdt", "idt"}
  /\ ~boot.interrupts

\* ------------------------------------------------------ kernel stack ranges
\* C26: the bump pointer of the kernel-stack ranges never goes down: a
\* destroy_process leaves it where it was and a create_user_process leaves it
\* where it was or higher.  Once it has reached KERNEL_STACK_VIRT_END, that is
\* once (END - START) / PROCESS_KSTACK_SIZE ranges have been handed out, every
\* create_user_process returns NULL: it fails in allocate_kernel_stack
\* (status -3) unless it failed before (the PCB or the page directory: -1, -2),
\* and never gets further, whatever has been destroyed since.
C26_BumpPointerMonotone ==
  [][/\ g_next_kernel_stack_virt_base' >= g_next_kernel_stack_virt_base
     /\ last'.op = "destroy" =>
          g_next_kernel_stack_virt_base' = g_next_kernel_stack_virt_base
     /\ (g_next_kernel_stack_virt_base = KERNEL_STACK_VIRT_END /\ last'.op = "create") =>
          /\ CreateFailed'
          /\ g_next_kernel_stack_virt_base' = KERNEL_STACK_VIRT_END
          /\ tss_esp0' = tss_esp0
          /\ last'.status \in {-1, -2, -3}
          /\ last'.status = -3 <=> EventsNamed("kstack_error")' # {}]_vars

\* Every range has been handed out, every process has been destroyed, and
\* the create made after that failed in allocate_kernel_stack because the
\* region is exhausted.
C26_Witness ==
  /\ CreateFailed
  /\ procs = {}
  /\ g_next_kernel_stack_virt_base = KERNEL_STACK_VIRT_END
  /\ \E k \in EventsNamed("kstack_error") : events[k][2] = 3

\* C27: the kernel-stack ranges [top - PROCESS_KSTACK_SIZE, top) of the live
\* processes are page aligned, lie inside [KERNEL_STACK_VIRT_START,
\* KERNEL_STACK_VIRT_END) and are pairwise disjoint, after creates that
\* failed as after those that succeeded.
C27_StackRangesDisjoint ==
  /\ \A p \in procs :
       /\ p.kernel_stack_vaddr_top % PAGE_SIZE = 0
       /\ (p.kernel_stack_vaddr_top - PROCESS_KSTACK_SIZE) % PAGE_SIZE = 0
       /\ p.kernel_stack_vaddr_top - PROCESS_KSTACK_SIZE >= KERNEL_STACK_VIRT_START
       /\ p.kernel_stack_vaddr_top <= KERNEL_STACK_VIRT_END
  /\ \A p, q \in procs :
       p # q => \/ p.kernel_stack_vaddr_top <= q.kernel_stack_vaddr_top - PROCESS_KSTACK_SIZE
                \/ q.kernel_stack_vaddr_top <= p.kernel_stack_vaddr_top - PROCESS_KSTACK_SIZE

\* Two processes are alive with ranges above the first one, which an earlier
\* call used and no live process holds, and the last create failed.
C27_Witness ==
  /\ Cardinality(procs) = 2
  /\ CreateFailed
  /\ \A p \in procs :
       p.kernel_stack_vaddr_top - PROCESS_KSTACK_SIZE > KERNEL_STACK_VIRT_START

\* ----------------------------------------------------------- VMA lists
\* A program header of the file e spans pages of the user-stack region.
SegmentInStack(e) ==
  \E i \in 1..Len(Elfs[e].phdrs) :
    /\ PAGE_ALIGN_DOWN(Elfs[e].phdrs[i].p_vaddr) < USER_STACK_TOP_VIRT_ADDR
    /\ PAGE_ALIGN_UP(Elfs[e].phdrs[i].p_vaddr + Elfs[e].phdrs[i].p_memsz)
         > USER_STACK_BOTTOM_VIRT

SegmentsOverlap(e) ==
  \E i, j \in 1..Len(Elfs[e].phdrs) :
    /\ i < j
    /\ PAGE_ALIGN_DOWN(Elfs[e].phdrs[i].p_vaddr)
         < PAGE_ALIGN_UP(Elfs[e].phdrs[j].p_vaddr + Elfs[e].phdrs[j].p_memsz)
    /\ PAGE_ALIGN_DOWN(Elfs[e].phdrs[j].p_vaddr)
         < PAGE_ALIGN_UP(Elfs[e].phdrs[i].p_vaddr + Elfs[e].phdrs[i].p_memsz)

\* C29: a create from a file with two PT_LOAD segments whose page-aligned
\* spans overlap, or with a segment in the user-stack region, returns NULL:
\* unless an earlier step fails, the insert_vma that meets the conflict fails
\* (in the loader, status -5, which never gets past overlapping segments, or
\* for the stack VMA, status -6), and the cleanup releases what the segments
\* loaded before the conflict had taken: no frame stays allocated that is
\* neither a page table of a live directory, nor a live directory, nor mapped
\* by a live table.
C29_ConflictingSegments ==
  (last.op = "create" /\ last.fault = "none" /\ ~HeaderInvalid(Elfs[last.elf])
     /\ (SegmentsOverlap(last.elf) \/ SegmentInStack(last.elf))) =>
    /\ CreateFailed
    /\ last.status \in {-1, -2, -3, -5, -6}
    /\ SegmentsOverlap(last.elf) => last.status # -6
    /\ last.status = -6 => SegmentInStack(last.elf)
    /\ \A p \in Frames \ buddy_free :
         \/ p \in LiveTables
         \/ \E q \in procs : q.page_directory_phys = p
         \/ PtesMapping(p) # {}

\* The loader had inserted the VMA of the first segment and filled its
\* frames when the second one was refused.
C29_Witness ==
  /\ CreateFailed
  /\ last.status = -5
  /\ SegmentsOverlap(last.elf)
  /\ last.load.vmas >= 1
  /\ last.load.frames >= 1

\* ------------------------------------------------------------- FAT directory
FindSucceeded == fat.op.name = "fat_find_in_dir" /\ fat.op.ret = "SUCCESS"

\* C24: when fat_find_in_dir (and fat_lookup_path, which hands its offset on)
\* succeeds, the reported entry offset counts from the start of the
\* directory's cluster chain: resolving (root cluster, offset) by hopping along
\* the chain, as update_directory_entry and mark_directory_entries_deleted do,
\* arrives at a slot of the chain that holds exactly the returned 8.3 entry.
C24_OffsetFromChainStart ==
  FindSucceeded =>
    LET F == fat.op.before
        at == ResolveOffset(F, fat.root_cluster, fat.op.entry_offset)
        path == fat_lookup_path(F, fat.root_cluster, << SLASH, fat.op.arg >>)
    IN  /\ at.cluster \in Clusters
        /\ F.data[at.cluster][at.index] = fat.op.entry
        /\ path.ret = "SUCCESS"
        /\ path.entry_offset_in_dir = fat.op.entry_offset

\* The same for a file whose 8.3 entry lies in the first cluster of the
\* directory: there the offset within the cluster is the offset in the chain.
C24_FirstCluster ==
  (FindSucceeded /\ fat.op.before.data[fat.root_cluster]
                      [fat.op.entry_offset \div FAT_DIR_ENTRY_SIZE + 1] = fat.op.entry)
    => LET at == ResolveOffset(fat.op.before, fat.root_cluster, fat.op.entry_offset)
       IN  at.cluster = fat.root_cluster
             /\ fat.op.before.data[at.cluster][at.index] = fat.op.entry

\* The clusters of the chain that starts at cluster, in order; the walk ends at
\* the first entry that is no data cluster and takes at most budget links.
RECURSIVE ChainOf(_, _, _)
ChainOf(F, cluster, budget) ==
  IF cluster \notin Clusters \/ budget = 0 THEN << >>
  ELSE << cluster >> \o ChainOf(F, F.next[cluster], budget - 1)

Extended ==
  fat.op.name = "find_free_directory_slot" /\ fat.op.ret = "SUCCESS" /\ fat.op.extended

\* C25: after find_free_directory_slot has extended the directory, the chain
\* from the directory's first cluster is the chain it had before, cluster for
\* cluster, followed by the new cluster, which is marked end of chain.
C25_ExtensionAppends ==
  Extended =>
    /\ ChainOf(Volume, fat.root_cluster, MaxCluster)
         = Append(ChainOf(fat.op.before, fat.root_cluster, MaxCluster), fat.op.slot_cluster)
    /\ fat.next[fat.op.slot_cluster] = EOC_MARKER

\* The same when the scan ran to the end of the chain: no slot of the
\* directory's last cluster was a 0x00 end marker.
C25_ExtensionAtEndOfChain ==
  LET old == ChainOf(fat.op.before, fat.root_cluster, MaxCluster)
  IN  (Extended /\ \A j \in 1..Len(fat.op.before.data[old[Len(old)]]) :
                      fat.op.before.data[old[Len(old)]][j].name0 # FAT_DIR_ENTRY_UNUSED)
        => /\ ChainOf(Volume, fat.root_cluster, MaxCluster) = Append(old, fat.op.slot_cluster)
           /\ fat.next[fat.op.slot_cluster] = EOC_MARKER

\* The slots of the directory at the root of F in chain order, as
\* << cluster, index >> pairs.
ChainSlots(F) ==
  LET chain == ChainOf(F, fat.root_cluster, MaxCluster)
      per == (BYTES_PER_SECTOR \div FAT_DIR_ENTRY_SIZE) * SECTORS_PER_CLUSTER
  IN  [p \in 1..(Len(chain) * per) |-> << chain[(p - 1) \div per + 1], ((p - 1) % per) + 1 >>]

\* The slots of the file named component in F: its 8.3 entry and the run of
\* its long-name entries that ends just before it.
SlotsOfFile(F, component) ==
  LET at == ChainSlots(F)
      Slot(p) == F.data[at[p][1]][at[p][2]]
      InUse(p) == Slot(p).name0 \notin {FAT_DIR_ENTRY_UNUSED, FAT_DIR_ENTRY_DELETED}
      entry == {p \in DOMAIN at : InUse(p) /\ ~Slot(p).lfn /\ Slot(p).id = component}
      run == {q \in DOMAIN at :
                \E p \in entry : q < p /\ \A r \in q..(p - 1) :
                   InUse(r) /\ Slot(r).lfn /\ Slot(r).id = component}
  IN  {at[p] : p \in entry \cup run}

\* A file of the root directory was unlinked.
Unlinked ==
  fat.op.name = "fat_unlink_internal" /\ fat.op.ret = "SUCCESS" /\ Len(fat.op.path) = 2

\* C30: after a successful fat_unlink_internal the first byte of every slot of
\* the named file is 0xE5, and the first byte of every other slot of the
\* volume is what it was before the call.
C30_UnlinkMarksOwnSlots ==
  Unlinked =>
    \A c \in Clusters : \A j \in DOMAIN fat.data[c] :
      fat.data[c][j].name0 =
        IF << c, j >> \in SlotsOfFile(fat.op.before, fat.op.arg)
          THEN FAT_DIR_ENTRY_DELETED
          ELSE fat.op.before.data[c][j].name0

\* The same for a file whose slots all lie in the first cluster of the
\* directory.
C30_FirstCluster ==
  (Unlinked /\ \A s \in SlotsOfFile(fat.op.before, fat.op.arg) : s[1] = fat.root_cluster)
    => \A c \in Clusters : \A j \in DOMAIN fat.data[c] :
         fat.data[c][j].name0 =
           IF << c, j >> \in SlotsOfFile(fat.op.before, fat.op.arg)
             THEN FAT_DIR_ENTRY_DELETED
             ELSE fat.op.before.data[c][j].name0

\* ------------------------------------------------- kernel stack under CR3
\* C32: after a successful create_user_process every page of the new
\* process's kernel stack resolves through the process's own page directory
\* to the frame it resolves to through the kernel page directory, for the
\* first process as for later ones.
C32_KernelStackInOwnDirectory ==
  CreateSucceeded =>
    \A k \in 0..((PROCESS_KSTACK_SIZE \div PAGE_SIZE) - 1) :
      LET v == LastCreated.kernel_stack_vaddr_top - PROCESS_KSTACK_SIZE + k * PAGE_SIZE
          own == paging_get_physical_address(Machine, LastCreated.page_directory_phys, v)
          kernel == paging_get_physical_address(Machine, KERNEL_PD, v)
      IN  kernel.ok /\ own.ok /\ own.p = kernel.p

\* C33: when create_user_process fails, the TSS esp0 on return is what it was
\* before the call, and it does not name the top of a kernel stack whose
\* pages the cleanup has unmapped.
C33_FailedCreateKeepsTss ==
  CreateFailed =>
    /\ tss_esp0 = last.tss_before
    /\ tss_esp0 # 0 =>
         KstackPagesMapped(Machine, tss_esp0 - PROCESS_KSTACK_SIZE)
           = PagesOf(tss_esp0 - PROCESS_KSTACK_SIZE, tss_esp0)

\* ------------------------------------------------------ user frame contents
\* C34: when create_user_process succeeds, every byte of every frame mapped
\* into the user space of the new process (the pages of the segments and the
\* initial user-stack page) is a byte of the file or zero, never what the
\* frame held before frame_alloc returned it.
C34_NoStaleUserBytes ==
  CreateSucceeded =>
    \A v \in PagesOf(0, KERNEL_VIRT_BASE) :
      paging_get_physical_address(Machine, LastCreated.page_directory_phys, v).ok =>
        \A k \in 0..(PAGE_SIZE - 1) : UserByte(LastCreated, v + k) # STALE

\* ------------------------------------------------------------- entry point
\* C35: after a successful create_user_process the entry point of the PCB
\* lies in a VMA of the process that carries VM_EXEC and its page is mapped
\* in the process's directory; so no create succeeds for a file without a
\* loadable segment or with e_entry outside every loaded segment.
C35_EntryInExecutableVma ==
  CreateSucceeded =>
    /\ \E i \in 1..Len(LastCreated.mm.vmas) :
         /\ LastCreated.mm.vmas[i].vm_start <= LastCreated.entry_point
         /\ LastCreated.entry_point < LastCreated.mm.vmas[i].vm_end
         /\ "VM_EXEC" \in LastCreated.mm.vmas[i].vm_flags
    /\ paging_get_physical_address(Machine, LastCreated.page_directory_phys,
                                   LastCreated.entry_point).ok

\* ---------------------------------------------------- selected memory area
\* C36: for all 64-bit addr and len of the memory map, those at or above
\* 2^32 included, the base and size that find_largest_memory_area returns
\* describe a range [base, base + size) that lies in a single AVAILABLE entry
\* and does not meet [0, kernel_image_end_phys).
C36_RegionInsideOneEntry ==
  MemoryManagementRan =>
    \A r \in {find_largest_memory_area(boot.entries, boot.kernel_image_end_phys)} :
      r.ok =>
        /\ r.base >= boot.kernel_image_end_phys
        /\ \E i \in 1..Len(boot.entries) :
             /\ boot.entries[i].type = MULTIBOOT_MEMORY_AVAILABLE
             /\ boot.entries[i].addr <= r.base
             /\ r.base + r.size <= boot.entries[i].addr + boot.entries[i].len


\* ------------------------------------------------------- "." in a FAT path
LookedUp == fat.op.name = "fat_lookup_path"

\* C31: for every path that fat_lookup_path resolves to a directory, the
\* lookup of that path followed by "/." succeeds too and yields the same
\* entry, and the lookup of "/." yields the entry of the root directory, which
\* is what the lookup of "/" yields.
C31_DotStaysInDirectory ==
  /\ (LookedUp /\ fat.op.ret = "SUCCESS" /\ FAT_ATTR_DIRECTORY \in fat.op.entry.attr) =>
       LET dot == fat_lookup_path(fat.op.before, fat.root_cluster,
                                  fat.op.path \o << SLASH, DOT >>)
       IN  dot.ret = "SUCCESS" /\ dot.entry = fat.op.entry
  /\ (LookedUp /\ fat.op.path = << SLASH, DOT >>) =>
       /\ fat.op.ret = "SUCCESS"
       /\ fat.op.entry = fat_lookup_path(fat.op.before, fat.root_cluster, << SLASH >>).entry


\* ------------------------------------------------------------- fs->lock
\* The call returned before the line that acquires fs->lock: an argument was
\* NULL, or the file handed to fat_readdir_internal is no directory.
ReturnedBeforeLock ==
  \/ fat.op.fault = "null"
  \/ fat.op.name = "fat_readdir_internal" /\ ~fat.fctx.is_directory

\* C37: fat_open_internal, fat_readdir_internal and fat_unlink_internal
\* acquire fs->lock at most once and, when they have acquired it, release it
\* exactly once after that and before they return, whatever they return: the
\* lock is free after every call, and a call that returns before the
\* acquisition does not touch the lock.
C37_LockReleasedOnce ==
  /\ fat.lock = 0
  /\ fat.op.name \in {"fat_open_internal", "fat_readdir_internal", "fat_unlink_internal"} =>
       fat.op.lock = IF ReturnedBeforeLock THEN << >> ELSE << "acquire", "release" >>

\* Error returns of the three functions under the lock: a readdir with an
\* index out of sequence, an open that fails to create, and an unlink of a
\* directory.
C37_Witness ==
  /\ fat.op.lock = << "acquire", "release" >>
  /\ \/ fat.op.name = "fat_readdir_internal" /\ fat.op.ret = "INVALID_PARAM"
     \/ fat.op.name = "fat_open_internal" /\ fat.op.fault = "create" /\ fat.op.ret # "SUCCESS"
     \/ fat.op.name = "fat_unlink_internal" /\ fat.op.ret = "IS_A_DIRECTORY"


\* ------------------------------------------------------ directory listing
\* The files of the directory whose chain starts at first_cluster, in on-disk
\* order: the 8.3 entries in use before the first 0x00 entry that are no
\* volume label.
DirectoryListing(F, first_cluster) ==
  LET chain == ChainOf(F, first_cluster, MaxCluster)
      RECURSIVE Slots(_)
      Slots(k) == IF k > Len(chain) THEN << >> ELSE F.data[chain[k]] \o Slots(k + 1)
      RECURSIVE Files(_)
      Files(slots) ==
        IF slots = << >> \/ Head(slots).name0 = FAT_DIR_ENTRY_UNUSED THEN << >>
        ELSE IF \/ Head(slots).name0 = FAT_DIR_ENTRY_DELETED
                \/ Head(slots).lfn
                \/ FAT_ATTR_VOLUME_ID \in Head(slots).attr
          THEN Files(Tail(slots))
        ELSE << Head(slots).id >> \o Files(Tail(slots))
  IN  Files(Slots(1))

\* The directory opened has been read with entry_index 0, 1, 2, ... so far.
ReadInOrder ==
  /\ fat.op.name = "fat_readdir_internal"
  /\ fat.fctx.is_directory
  /\ fat.in_order

\* C38: a directory read from its opening with entry_index 0, 1, 2, ...
\* yields its files in on-disk order, each once: what the calls have returned
\* so far is the start of the directory's listing, and the first call that
\* returns no entry returns NOT_FOUND after the whole listing was returned.
C38_ReaddirListsEachEntryOnce ==
  ReadInOrder =>
    LET files == DirectoryListing(Volume, fat.fctx.first_cluster)
    IN  /\ Len(fat.listing) <= Len(files)
        /\ fat.listing = SubSeq(files, 1, Len(fat.listing))
        /\ fat.op.ret # "SUCCESS" => fat.op.ret = "NOT_FOUND" /\ fat.listing = files

\* The same for a directory that lies in one cluster.
C38_OneCluster ==
  (ReadInOrder /\ Len(ChainOf(Volume, fat.fctx.first_cluster, MaxCluster)) = 1) =>
    LET files == DirectoryListing(Volume, fat.fctx.first_cluster)
    IN  /\ Len(fat.listing) <= Len(files)
        /\ fat.listing = SubSeq(files, 1, Len(fat.listing))
        /\ fat.op.ret # "SUCCESS" => fat.op.ret = "NOT_FOUND" /\ fat.listing = files


\* --------------------------------------------------- unlink, all or nothing
UnlinkReturned == fat.op.name = "fat_unlink_internal"

\* The slots whose first byte the call made 0xE5.
MarkedDeleted ==
  {s \in Clusters \X (1..((BYTES_PER_SECTOR \div FAT_DIR_ENTRY_SIZE) * SECTORS_PER_CLUSTER)) :
     /\ fat.data[s[1]][s[2]].name0 = FAT_DIR_ENTRY_DELETED
     /\ fat.op.before.data[s[1]][s[2]].name0 # FAT_DIR_ENTRY_DELETED}

\* C39: a fat_unlink_internal that returns an error has marked no directory
\* entry deleted, and one that has marked an entry deleted returns FS_SUCCESS.
C39_UnlinkErrorMarksNothing ==
  UnlinkReturned =>
    /\ fat.op.ret # "SUCCESS" => MarkedDeleted = {}
    /\ MarkedDeleted # {} => fat.op.ret = "SUCCESS"

\* The same for the calls in which fat_free_cluster_chain does not fail.
C39_ChainFreed ==
  (UnlinkReturned /\ fat.op.fault # "free") =>
    /\ fat.op.ret # "SUCCESS" => MarkedDeleted = {}
    /\ MarkedDeleted # {} => fat.op.ret = "SUCCESS"

====
